---- MODULE Spec2Model ----
(***************************************************************************)
(* Space-group symmetrization of half-space reciprocal fields              *)
(* (qimpy/symmetries/_field.py, class FieldSymmetrizer).                   *)
(*                                                                         *)
(* Arrays keep the source's 0-based indices: an array of length n is a     *)
(* function on 0..n-1.  3-vectors and the list of symmetry operations are  *)
(* tuples (component j of the source is position j+1).                     *)
(* Field values are exact complex rationals <<re, im, den>> in lowest      *)
(* terms; translations are given in quarter units so that every phase is   *)
(* one of 1, -i, -1, i.                                                    *)
(***************************************************************************)
EXTENDS FiniteSets, Integers, Sequences, TLC

\* ------------------------------------------------------------------ bounds
MaxProcs == 3       \* processes of the communicator: n_procs \in 1..MaxProcs
MaxCalls == 2       \* symmetrization calls made per process
MaxBatch == 2       \* batch rows of the field: n_batch is 1 or MaxBatch
MaxIndex == 4       \* components of an index vector lie in -MaxIndex..MaxIndex
MaxFunctionals == 2 \* entries of libxc_names: 1..MaxFunctionals
NPoints == 2        \* grid points the functionals are evaluated on
MaxPieces == 3      \* pieces a docstring is put together from: 1..MaxPieces
MaxN == 3           \* physical cells along an axis of the advection grid: 1..MaxN
MaxGhost == 2       \* ghost layers of the advection grid: N_ghost \in 0..MaxGhost

\* --------------------------------------------------------- small utilities
Range(n) == 0 .. (n - 1)

Abs(x) == IF x < 0 THEN -x ELSE x

RECURSIVE Gcd(_, _)
Gcd(a, b) == IF b = 0 THEN a ELSE Gcd(b, a % b)

SetMin(S) == CHOOSE e \in S : \A x \in S : e <= x

\* the elements of a finite set of integers in increasing order
SortedArr(S) ==
    [k \in Range(Cardinality(S)) |->
        CHOOSE e \in S : Cardinality({x \in S : x < e}) = k]

RECURSIVE SumRange(_, _, _)
\* f(lo) + ... + f(hi-1) for an integer-valued array f, by halving
SumRange(f, lo, hi) ==
    IF hi <= lo THEN 0
    ELSE IF hi = lo + 1 THEN f[lo]
    ELSE SumRange(f, lo, (lo + hi) \div 2) + SumRange(f, (lo + hi) \div 2, hi)

\* f(0) + ... + f(n-1)
SumTo(f, n) == SumRange(f, 0, n)

\* ------------------------------------------------- exact complex rationals
CNorm(re, im, den) ==
    LET g == Gcd(Gcd(Abs(re), Abs(im)), den)
    IN  <<re \div g, im \div g, den \div g>>

CZero == <<0, 0, 1>>

CAdd(a, b) == CNorm(a[1] * b[3] + b[1] * a[3], a[2] * b[3] + b[2] * a[3], a[3] * b[3])

\* product with a Gaussian integer u = <<ur, ui>>
CMul(a, u) == CNorm(a[1] * u[1] - a[2] * u[2], a[1] * u[2] + a[2] * u[1], a[3])

\* a / n for a positive integer n
CDiv(a, n) == CNorm(a[1], a[2], a[3] * n)

UConj(u) == <<u[1], -u[2]>>

RECURSIVE CSumRange(_, _, _)
\* f(lo) + ... + f(hi-1) for a complex-valued array f, by halving
CSumRange(f, lo, hi) ==
    IF hi <= lo THEN CZero
    ELSE IF hi = lo + 1 THEN f[lo]
    ELSE CAdd(CSumRange(f, lo, (lo + hi) \div 2), CSumRange(f, (lo + hi) \div 2, hi))

\* f(0) + ... + f(n-1)
CSumTo(f, n) == CSumRange(f, 0, n)

\* torch tensor-tensor broadcasting of a length-m vector against n columns
\* (in-place on the length-n operand): allowed when m = n or m = 1
CanBroadcast(m, n) == m = n \/ m = 1

\* ------------------------------------------------------ grid (collaborator)
ShapeH(shape) == <<shape[1], shape[2], (shape[3] \div 2) + 1>>

Prod(v) == v[1] * v[2] * v[3]

Dot(a, b) == a[1] * b[1] + a[2] * b[2] + a[3] * b[3]

\* iH @ rot_i : row vector times matrix
VecMat(v, R) ==
    << v[1] * R[1][1] + v[2] * R[2][1] + v[3] * R[3][1],
       v[1] * R[1][2] + v[2] * R[2][2] + v[3] * R[3][2],
       v[1] * R[1][3] + v[2] * R[2][3] + v[3] * R[3][3] >>

\* signed frequency of grid coordinate i along an axis of length n
Wrap(i, n) == IF i > n \div 2 THEN i - n ELSE i

\* grid.get_mesh('H', mine=False).view(-1, 3)[g]
get_mesh(shape, g) ==
    LET sH == ShapeH(shape)
    IN  << Wrap(g \div (sH[2] * sH[3]), shape[1]),
           Wrap((g \div sH[3]) % sH[2], shape[2]),
           g % sH[3] >>

\* qimpy.utils.TaskDivision(n_tot, n_procs, i_proc)
TaskDivision(n_tot, n_procs, i_proc) ==
    LET n_each == (n_tot + n_procs - 1) \div n_procs
        n_prev == [j \in 0 .. n_procs |->
                      IF n_each * j < n_tot THEN n_each * j ELSE n_tot]
    IN  [n_tot |-> n_tot, n_procs |-> n_procs, n_each |-> n_each,
         n_prev |-> n_prev,
         i_start |-> n_prev[i_proc], i_stop |-> n_prev[i_proc + 1]]

\* TaskDivision.whose_each
whose_each(div, i) == i \div div.n_each

\* qimpy.utils.cis(-2 pi m / 4) = exp(-i pi m / 2)
cis(m) ==
    CASE m % 4 = 0 -> <<1, 0>>
      [] m % 4 = 1 -> <<0, -1>>
      [] m % 4 = 2 -> <<-1, 0>>
      [] OTHER     -> <<0, 1>>

\* ------------------------------------------------------------- GroupAction
\* mutant: the stride of the first axis forgets the second axis
strideH_first_axis_short(shape) == <<ShapeH(shape)[3], ShapeH(shape)[3], 1>>

strideH(shape) == <<ShapeH(shape)[2] * ShapeH(shape)[3], ShapeH(shape)[3], 1>>

\* mutant: a last component one past the half-space bound is not folded
get_index_folds_late(shape, iH) ==
    LET iH_wrapped == [j \in 1 .. 3 |-> iH[j] % shape[j]]
        is_conj    == iH_wrapped[3] > ShapeH(shape)[3]
        folded     == IF is_conj
                      THEN [j \in 1 .. 3 |-> (-iH_wrapped[j]) % shape[j]]
                      ELSE iH_wrapped
    IN  [index |-> Dot(folded, strideH(shape)), is_conj |-> is_conj]

get_index(shape, iH) ==
    LET iH_wrapped == [j \in 1 .. 3 |-> iH[j] % shape[j]]
        is_conj    == iH_wrapped[3] >= ShapeH(shape)[3]
        folded     == IF is_conj
                      THEN [j \in 1 .. 3 |-> (-iH_wrapped[j]) % shape[j]]
                      ELSE iH_wrapped
    IN  [index |-> Dot(folded, strideH(shape)), is_conj |-> is_conj]

\* ------------------------------------------------------------ OrbitBuilder
n_grid_tot(shape) == Prod(ShapeH(shape))

min_equiv_index(shape, rot, g) ==
    SetMin({get_index(shape, get_mesh(shape, g)).index}
           \cup {get_index(shape, VecMat(get_mesh(shape, g), rot[s])).index :
                   s \in 1 .. Len(rot)})

\* mutant: the orbit representatives are numbered in decreasing order
reduced_decreasing(shape, rot) ==
    LET S == {min_equiv_index(shape, rot, g) : g \in Range(n_grid_tot(shape))}
    IN  [k \in Range(Cardinality(S)) |->
            CHOOSE e \in S : Cardinality({x \in S : x > e}) = k]

\* min_equiv_index.unique(): the orbit representatives, increasing
reduced(shape, rot) ==
    SortedArr({min_equiv_index(shape, rot, g) : g \in Range(n_grid_tot(shape))})

\* index[o][s], is_conj[o][s] over all orbits o and operations s (0-based):
\* get_index((iH_reduced @ rot).transpose(0, 1))
orbit_table(shape, rot, red) ==
    [o \in DOMAIN red |->
        [s \in Range(Len(rot)) |->
            get_index(shape, VecMat(get_mesh(shape, red[o]), rot[s + 1]))]]

\* index.unique(sorted=True, return_counts=True)[1]
unique_counts(tab, n_sym) ==
    LET n    == Cardinality(DOMAIN tab) * n_sym
        flat == [f \in Range(n) |-> tab[f \div n_sym][f % n_sym].index]
        uniq == SortedArr({flat[f] : f \in Range(n)})
    IN  [k \in DOMAIN uniq |-> Cardinality({f \in Range(n) : flat[f] = uniq[k]})]

\* --------------------------------------------------- DistributionPlanner
\* grid.split2H: the grid's own split of the folded axis
split2H(shape, n_procs, i_proc) == TaskDivision(ShapeH(shape)[3], n_procs, i_proc)

\* mutant: the orbits are split for one process more than the job has
div_dest_extra_proc(n_orbits, n_procs, i_proc) ==
    TaskDivision(n_orbits, n_procs + 1, i_proc)

\* div_dest: the split of the orbits
div_dest(n_orbits, n_procs, i_proc) == TaskDivision(n_orbits, n_procs, i_proc)

\* ------------------------------------------------- CommunicationScheduler
\* torch.searchsorted(a, v) for a sorted array a
searchsorted(a, v) == Cardinality({k \in DOMAIN a : a[k] < v})

\* a.argsort() for an array a of distinct keys
argsort(a) ==
    [j \in DOMAIN a |->
        CHOOSE l \in DOMAIN a : Cardinality({m \in DOMAIN a : a[m] < a[l]}) = j]

\* whose_src[o][s]: the process that holds the grid point index[o][s]
whose_src(shape, tab, n_sym, div_src) ==
    [o \in DOMAIN tab |->
        [s \in Range(n_sym) |->
            whose_each(div_src, get_mesh(shape, tab[o][s].index)[3])]]

\* torch.where(whose_src == i_proc), as flat positions o * n_sym + s in
\* row-major order
mine_src(whose, n_sym, i_proc) ==
    SortedArr({f \in Range(Cardinality(DOMAIN whose) * n_sym) :
                 whose[f \div n_sym][f % n_sym] = i_proc})

send_prev(mine, n_sym, dest) ==
    [q \in 0 .. dest.n_procs |->
        searchsorted([k \in DOMAIN mine |-> mine[k] \div n_sym], dest.n_prev[q])]

\* mutant: the split-axis coordinate is not shifted to the local block
grid_index_global_z(shape, tab, mine, n_sym, div_src) ==
    LET n_mine == div_src.i_stop - div_src.i_start
        strideH_local == <<ShapeH(shape)[2] * n_mine, n_mine, 1>>
    IN  [k \in DOMAIN mine |->
            LET g  == tab[mine[k] \div n_sym][mine[k] % n_sym].index
                iH == get_mesh(shape, g)
                iH_local == << iH[1] % shape[1], iH[2] % shape[2],
                               iH[3] % shape[3] >>
            IN  Dot(iH_local, strideH_local)]

\* local flat index of every grid point this process sends
grid_index(shape, tab, mine, n_sym, div_src) ==
    LET n_mine == div_src.i_stop - div_src.i_start
        strideH_local == <<ShapeH(shape)[2] * n_mine, n_mine, 1>>
    IN  [k \in DOMAIN mine |->
            LET g  == tab[mine[k] \div n_sym][mine[k] % n_sym].index
                iH == get_mesh(shape, g)
                iH_local == << iH[1] % shape[1], iH[2] % shape[2],
                               (iH[3] % shape[3]) - div_src.i_start >>
            IN  Dot(iH_local, strideH_local)]

\* mutant: the slice of the multiplicities starts at the first plane
multiplicity_mine_from_first(shape, multiplicity, div_src) ==
    LET n_mine == div_src.i_stop - div_src.i_start
        sH     == ShapeH(shape)
    IN  [l \in Range(sH[1] * sH[2] * n_mine) |->
            multiplicity[(l \div n_mine) * sH[3] + (l % n_mine)]]

\* multiplicity.view(grid.shapeH)[..., i_start:i_stop].flatten()
multiplicity_mine(shape, multiplicity, div_src) ==
    LET n_mine == div_src.i_stop - div_src.i_start
        sH     == ShapeH(shape)
    IN  [l \in Range(sH[1] * sH[2] * n_mine) |->
            multiplicity[(l \div n_mine) * sH[3] + (l % n_mine) + div_src.i_start]]

\* whose_src[mine_dest].flatten()
whose_src_mine(whose, n_sym, dest) ==
    [l \in Range((dest.i_stop - dest.i_start) * n_sym) |->
        whose[dest.i_start + (l \div n_sym)][l % n_sym]]

recv_index(wsm) ==
    argsort([l \in DOMAIN wsm |-> wsm[l] * Cardinality(DOMAIN wsm) + l])

\* mutant: the boundaries are searched from the right
recv_prev_from_right(wsm, rindex, n_procs) ==
    [q \in 0 .. n_procs |->
        Cardinality({j \in DOMAIN rindex : wsm[rindex[j]] <= q})]

recv_prev(wsm, rindex, n_procs) ==
    [q \in 0 .. n_procs |->
        searchsorted([j \in DOMAIN rindex |-> wsm[rindex[j]]], q)]

\* mutant: the receive order is used where its inverse is needed
orbit_index_not_inverted(rindex) == rindex

\* orbit_index[recv_index] = local_index
orbit_index(rindex) ==
    [l \in DOMAIN rindex |-> CHOOSE j \in DOMAIN rindex : rindex[j] = l]

\* ---------------------------------------------------- phases and weights
\* value stored in a tensor of is_conj's dtype (torch.bool)
AsBool(x) == x # 0

\* imag_scale = ones_like(is_conj); imag_scale[is_conj] = -1
imag_scale(tab, n_sym, o_start, o_stop) ==
    [o \in Range(o_stop - o_start) |->
        [s \in Range(n_sym) |->
            IF tab[o_start + o][s].is_conj THEN AsBool(-1) ELSE AsBool(1)]]

\* phase = cis(-2 pi (iH_reduced[:, None] * trans).sum(-1)); trans in quarters
phase(shape, red, trans, o_start, o_stop) ==
    [o \in Range(o_stop - o_start) |->
        [s \in Range(Len(trans)) |->
            cis(Dot(get_mesh(shape, red[o_start + o]), trans[s + 1]))]]

\* mutant: the weight forgets the multiplicity of the grid point
inv_multiplicity_no_mult(n_sym, multiplicity) ==
    [l \in DOMAIN multiplicity |-> <<1, n_sym>>]

\* inv_multiplicity = (1. / n_sym) / multiplicity, as <<numerator, denominator>>
inv_multiplicity(n_sym, multiplicity) ==
    [l \in DOMAIN multiplicity |-> <<1, n_sym * multiplicity[l]>>]


\* ------------------------------------------------------------ construction
\* FieldSymmetrizer.__init__ on process i_proc.  ok is FALSE when
\* multiplicity.view(grid.shapeH) raises (its length is not prod(shapeH)).
Plan(shape, rot, trans, n_procs, n_split, i_proc) ==
    LET n_sym == Len(rot)
        red   == reduced(shape, rot)
        tab   == orbit_table(shape, rot, red)
        multiplicity == unique_counts(tab, n_sym)
        n_orbits == Cardinality(DOMAIN red)
    IN  IF n_procs > 1
        THEN LET dest   == div_dest(n_orbits, n_procs, i_proc)
                 src    == split2H(shape, n_split, i_proc)
                 whose  == whose_src(shape, tab, n_sym, src)
                 mine   == mine_src(whose, n_sym, i_proc)
                 wsm    == whose_src_mine(whose, n_sym, dest)
                 rindex == recv_index(wsm)
                 ok     == Cardinality(DOMAIN multiplicity) = n_grid_tot(shape)
             IN  [ok          |-> ok,
                  n_orbits    |-> n_orbits,
                  index       |-> <<>>,
                  send_prev   |-> send_prev(mine, n_sym, dest),
                  recv_prev   |-> recv_prev(wsm, rindex, n_procs),
                  grid_index  |-> grid_index(shape, tab, mine, n_sym, src),
                  recv_index  |-> rindex,
                  orbit_index |-> orbit_index(rindex),
                  imag_scale  |-> imag_scale(tab, n_sym, dest.i_start, dest.i_stop),
                  phase       |-> phase(shape, red, trans, dest.i_start, dest.i_stop),
                  n_orbits_mine |-> dest.i_stop - dest.i_start,
                  n_sym       |-> n_sym,
                  inv_multiplicity |->
                      IF ok THEN inv_multiplicity(n_sym,
                                     multiplicity_mine(shape, multiplicity, src))
                            ELSE <<>>]
        ELSE [ok          |-> TRUE,
              n_orbits    |-> n_orbits,
              index       |-> [f \in Range(n_orbits * n_sym) |->
                                  tab[f \div n_sym][f % n_sym].index],
              send_prev   |-> <<>>,
              recv_prev   |-> <<>>,
              grid_index  |-> <<>>,
              recv_index  |-> <<>>,
              orbit_index |-> <<>>,
              imag_scale  |-> imag_scale(tab, n_sym, 0, n_orbits),
              phase       |-> phase(shape, red, trans, 0, n_orbits),
              n_orbits_mine |-> n_orbits,
              n_sym       |-> n_sym,
              inv_multiplicity |-> inv_multiplicity(n_sym, multiplicity)]

\* ------------------------------------------------------ SymmetrizationEngine
\* the number a torch.bool scale multiplies by
ScaleOf(b) == IF b THEN 1 ELSE 0

\* _conjugate: v_orbits.imag *= imag_scale, on v_orbits[b][o * n_sym + s]
conjugate(v_orbits, scale, n_sym) ==
    [b \in DOMAIN v_orbits |->
        [f \in DOMAIN v_orbits[b] |->
            CNorm(v_orbits[b][f][1],
                  v_orbits[b][f][2] * ScaleOf(scale[f \div n_sym][f % n_sym]),
                  v_orbits[b][f][3])]]

\* v_sym = einsum('bos, os -> bo', v_orbits, phase)
einsum_bos(v_orbits, ph, n_sym) ==
    [b \in DOMAIN v_orbits |->
        [o \in DOMAIN ph |->
            CSumTo([s \in Range(n_sym) |->
                       CMul(v_orbits[b][o * n_sym + s], ph[o][s])], n_sym)]]

\* v_orbits = v_sym[..., None] * phase[None].conj()
expand(v_sym, ph, n_sym) ==
    [b \in DOMAIN v_sym |->
        [f \in Range(Cardinality(DOMAIN ph) * n_sym) |->
            CMul(v_sym[b][f \div n_sym], UConj(ph[f \div n_sym][f % n_sym]))]]

\* lines 139-148: fold, phase-align and sum, re-expand, unfold
symm_perform(v_orbits, self) ==
    conjugate(expand(einsum_bos(conjugate(v_orbits, self.imag_scale, self.n_sym),
                                self.phase, self.n_sym),
                     self.phase, self.n_sym),
              self.imag_scale, self.n_sym)

\* mutant: the buffer is not cleared before the accumulation
zero_skipped(v) == v

\* v_data.zero_()
zero_(v) == [b \in DOMAIN v |-> [g \in DOMAIN v[b] |-> CZero]]

\* mutant: index_put_ with accumulate=False, the last value written stays
index_put_overwrite(v, where, values) ==
    [b \in DOMAIN v |->
        [g \in DOMAIN v[b] |->
            IF \E k \in DOMAIN where : where[k] = g
            THEN values[b][CHOOSE k \in DOMAIN where :
                              /\ where[k] = g
                              /\ \A m \in DOMAIN where : where[m] = g => m <= k]
            ELSE v[b][g]]]

\* v.index_put_(where, values, accumulate=True): values[b][k] is added at
\* column where[k] of row b
index_put_accumulate(v, where, values) ==
    [b \in DOMAIN v |->
        [g \in DOMAIN v[b] |->
            CAdd(v[b][g],
                 CSumTo([k \in DOMAIN where |->
                            IF where[k] = g THEN values[b][k] ELSE CZero],
                        Cardinality(DOMAIN where)))]]

\* v_data *= inv_multiplicity[None]  (a length-1 weight vector broadcasts)
normalize(v, inv_mult) ==
    [b \in DOMAIN v |->
        [g \in DOMAIN v[b] |->
            LET w == IF Cardinality(DOMAIN inv_mult) = 1 THEN inv_mult[0]
                                                         ELSE inv_mult[g]
            IN  CDiv(<<v[b][g][1] * w[1], v[b][g][2] * w[1], v[b][g][3]>>, w[2])]]


\* all_to_all with variable counts: what process q receives.  args[p] holds
\* the counts and offsets p passed, send[p] its send buffer, old[q] the
\* previous content of q's receive buffer.
Alltoallv(procs, send, args, old, q) ==
    [j \in DOMAIN old[q] |->
        IF \E p \in procs : /\ args[q].recv_offsets[p] <= j
                            /\ j < args[q].recv_offsets[p] + args[p].send_counts[q]
        THEN LET p == CHOOSE r \in procs :
                          /\ args[q].recv_offsets[r] <= j
                          /\ j < args[q].recv_offsets[r] + args[r].send_counts[q]
             IN  send[p][args[p].send_offsets[q] + (j - args[q].recv_offsets[p])]
        ELSE old[q][j]]

\* every pair agrees on the size of its message
CountsMatch(procs, args) ==
    \A p \in procs, q \in procs : args[p].send_counts[q] = args[q].recv_counts[p]

\* ------------------------------------------------------------------ inputs
RotE   == <<<<1, 0, 0>>, <<0, 1, 0>>, <<0, 0, 1>>>>
RotInv == <<<<-1, 0, 0>>, <<0, -1, 0>>, <<0, 0, -1>>>>
RotMx  == <<<<-1, 0, 0>>, <<0, 1, 0>>, <<0, 0, 1>>>>
RotMy  == <<<<1, 0, 0>>, <<0, -1, 0>>, <<0, 0, 1>>>>
RotMz  == <<<<1, 0, 0>>, <<0, 1, 0>>, <<0, 0, -1>>>>
RotC2y == <<<<-1, 0, 0>>, <<0, 1, 0>>, <<0, 0, -1>>>>
RotC2z == <<<<-1, 0, 0>>, <<0, -1, 0>>, <<0, 0, 1>>>>
RotSxz == <<<<0, 0, 1>>, <<0, 1, 0>>, <<1, 0, 0>>>>
RotSxzInv == <<<<0, 0, -1>>, <<0, -1, 0>>, <<-1, 0, 0>>>>
RotC4z == <<<<0, 1, 0>>, <<-1, 0, 0>>, <<0, 0, 1>>>>
RotC4z3 == <<<<0, -1, 0>>, <<1, 0, 0>>, <<0, 0, 1>>>>
RotC3 == <<<<0, 1, 0>>, <<0, 0, 1>>, <<1, 0, 0>>>>
RotC32 == <<<<0, 0, 1>>, <<1, 0, 0>>, <<0, 1, 0>>>>
NoTrans == <<0, 0, 0>>

\* grids with the space groups they are symmetric under; every group is
\* closed and starts with the identity, translations are in quarters
Configs ==
    { [shape |-> <<3, 1, 3>>, rot |-> <<RotE>>, trans |-> <<NoTrans>>],
      [shape |-> <<3, 1, 3>>, rot |-> <<RotE, RotInv>>, trans |-> <<NoTrans, NoTrans>>],
      [shape |-> <<3, 1, 3>>, rot |-> <<RotE, RotMx>>, trans |-> <<NoTrans, NoTrans>>],
      [shape |-> <<3, 1, 3>>, rot |-> <<RotE, RotMz>>, trans |-> <<NoTrans, NoTrans>>],
      [shape |-> <<3, 1, 3>>, rot |-> <<RotE, RotMx, RotMz, RotC2y>>,
       trans |-> <<NoTrans, NoTrans, NoTrans, NoTrans>>],
      [shape |-> <<3, 1, 3>>, rot |-> <<RotE, RotSxz>>, trans |-> <<NoTrans, NoTrans>>],
      [shape |-> <<3, 1, 3>>, rot |-> <<RotE, RotSxz, RotInv, RotSxzInv>>,
       trans |-> <<NoTrans, NoTrans, NoTrans, NoTrans>>],
      [shape |-> <<1, 1, 2>>, rot |-> <<RotE>>, trans |-> <<NoTrans>>],
      [shape |-> <<1, 1, 2>>, rot |-> <<RotE, RotMz>>, trans |-> <<NoTrans, NoTrans>>],
      [shape |-> <<2, 1, 4>>, rot |-> <<RotE>>, trans |-> <<NoTrans>>],
      [shape |-> <<2, 1, 4>>, rot |-> <<RotE, RotC2z>>, trans |-> <<NoTrans, <<0, 0, 2>>>>],
      [shape |-> <<2, 1, 4>>, rot |-> <<RotE, RotMz>>, trans |-> <<NoTrans, <<2, 0, 0>>>>],
      [shape |-> <<2, 1, 4>>, rot |-> <<RotE, RotInv>>, trans |-> <<NoTrans, NoTrans>>],
      [shape |-> <<3, 3, 1>>, rot |-> <<RotE, RotC4z, RotC2z, RotC4z3>>,
       trans |-> <<NoTrans, NoTrans, NoTrans, NoTrans>>],
      [shape |-> <<3, 3, 1>>, rot |-> <<RotE, RotMx, RotMy, RotC2z>>,
       trans |-> <<NoTrans, NoTrans, NoTrans, NoTrans>>],
      [shape |-> <<2, 2, 4>>, rot |-> <<RotE, RotC4z, RotC2z, RotC4z3>>,
       trans |-> <<NoTrans, <<0, 0, 1>>, <<0, 0, 2>>, <<0, 0, 3>>>>],
      [shape |-> <<3, 3, 3>>, rot |-> <<RotE, RotC3, RotC32>>,
       trans |-> <<NoTrans, NoTrans, NoTrans>>] }

\* global input fields: the zero field, a field of distinct values, and
\* the impulse of value 1 + i at every grid point
Fields(n) ==
    {[g \in Range(n) |-> CZero], [g \in Range(n) |-> <<g + 1, n - g, 1>>]}
    \cup {[g \in Range(n) |-> IF g = h THEN <<1, 1, 1>> ELSE CZero] : h \in Range(n)}

\* row b of a batch built on the field F: F rotated by b grid points
BatchRow(F, b) == [g \in DOMAIN F |-> F[(g + b) % Cardinality(DOMAIN F)]]

\* ------------------------------------------------------------------- state
VARIABLES
    shape,        \* grid.shape
    rot,          \* grid.symmetries.rot
    trans,        \* grid.symmetries.trans (quarters)
    n_procs,      \* grid.n_procs
    split_procs,  \* number of blocks of grid.split2H
    n_batch,      \* prod(v.data.shape[:-3])
    v_in,         \* the global input field, v_in[b][g]
    pc,           \* pc[p]: where process p is
    self,         \* self[p]: the FieldSymmetrizer of process p
    v_data,       \* v_data[p][b][l]: the field buffer of process p
    src_data,     \* src_data[p]: grid-side exchange buffer of the call
    dest_data,    \* dest_data[p]: orbit-side exchange buffer of the call
    coll,         \* coll[p]: arguments of the collectives p issued in its call
    calls,        \* calls[p]: calls completed by p
    v_out,        \* v_out[p]: the buffer of p at the end of each completed call
    arg_iH,       \* the index vector passed to a call of get_index
    ret,          \* what that call of get_index returned
    basis,        \* BasisReal: the basis, its grid shape and its communicator
    coeff_in,     \* BasisReal: the global coefficients before symmetrize
    coeff,        \* BasisReal: coeff[p][r][i], the coefficients process p holds
    real,         \* BasisReal: real[p], the BasisReal object of process p
    coeff_z0_mine,\* BasisReal: coeff_z0_mine[p], the send buffer of the call
    coeff_z0,     \* BasisReal: coeff_z0[p], the receive buffer of the call
    pc_real,      \* BasisReal: pc_real[p], where process p is
    libxc_names,  \* FunctionalsLibxc: the (name, scale factor) pairs, in order
    spin_polarized,\* FunctionalsLibxc: the spin_polarized argument
    xc,           \* FunctionalsLibxc: the object after construction
    rho,          \* FunctionalsLibxc: the density n at each grid point
    inputs,       \* FunctionalsLibxc.__call__: the inputs dictionary
    outputs,      \* FunctionalsLibxc.__call__: the outputs dictionary
    i_functional, \* FunctionalsLibxc.__call__: functionals applied so far
    xc_ret,       \* FunctionalsLibxc.__call__: the energy returned and n.grad
    pc_xc,        \* FunctionalsLibxc: where the caller is
    docstr_in,    \* yaml_remove: the argument docstr
    docstr,       \* yaml_remove: the local docstr
    i_start,      \* yaml_remove: the local i_start
    n_turns,      \* yaml_remove: turns of the loop taken so far
    pc_doc,       \* yaml_remove: where the call is
    adv_args,     \* Advect: the arguments N, N_ghost, reflect_boundaries
    advect,       \* Advect: the object after construction
    rho_arg,      \* Advect: rho as passed to the last apply_boundaries
    rho_adv,      \* Advect: self.rho
    density,      \* Advect: the density property as read from the present rho
    velocity,     \* Advect: the velocity property as read from the present rho
    pc_adv        \* Advect: where the caller is

\* the state of the field symmetrizer
fieldVars == <<shape, rot, trans, n_procs, split_procs, n_batch, v_in, pc, self,
               v_data, src_data, dest_data, coll, calls, v_out, arg_iH, ret>>

\* the state of the real-basis book-keeping
realVars == <<basis, coeff_in, coeff, real, coeff_z0_mine, coeff_z0, pc_real>>

\* the state of the Libxc functionals
xcVars == <<libxc_names, spin_polarized, xc, rho, inputs, outputs,
            i_functional, xc_ret, pc_xc>>

\* the state of a call of yaml_remove
docVars == <<docstr_in, docstr, i_start, n_turns, pc_doc>>

\* the state of the advection solver
advVars == <<adv_args, advect, rho_arg, rho_adv, density, velocity, pc_adv>>

\* the state outside the field symmetrizer
otherVars == <<realVars, xcVars, docVars, advVars>>

vars == <<fieldVars, otherVars>>

\* no real basis is in use
RealIdle ==
    /\ basis = <<>> /\ coeff_in = <<>> /\ coeff = <<>> /\ real = <<>>
    /\ coeff_z0_mine = <<>> /\ coeff_z0 = <<>> /\ pc_real = <<>>

\* no Libxc functional is in use
XcIdle ==
    /\ libxc_names = <<>> /\ spin_polarized = FALSE /\ xc = <<>> /\ rho = <<>>
    /\ inputs = <<>> /\ outputs = <<>> /\ i_functional = 0 /\ xc_ret = <<>>
    /\ pc_xc = ""

\* no call of yaml_remove is made
DocIdle ==
    /\ docstr_in = <<>> /\ docstr = <<>> /\ i_start = 0 /\ n_turns = 0
    /\ pc_doc = ""

\* no advection solver is in use
AdvIdle ==
    /\ adv_args = <<>> /\ advect = <<>> /\ rho_arg = <<>> /\ rho_adv = <<>>
    /\ density = <<>> /\ velocity = <<>> /\ pc_adv = ""

\* nothing but the field symmetrizer is in use
OthersIdle == RealIdle /\ XcIdle /\ DocIdle /\ AdvIdle

Procs == Range(n_procs)

\* the number of local grid points of process p: prod(grid.shapeH_mine)
n_grid_mine(p) ==
    LET d == split2H(shape, split_procs, p)
    IN  ShapeH(shape)[1] * ShapeH(shape)[2] * (d.i_stop - d.i_start)

\* global index of local grid point l of process p
GlobalOf(p, l) ==
    LET d == split2H(shape, split_procs, p)
        n_mine == d.i_stop - d.i_start
    IN  (l \div n_mine) * ShapeH(shape)[3] + (l % n_mine) + d.i_start

\* the part of the global batch v that process p holds
Local(v, p) ==
    [b \in DOMAIN v |-> [l \in Range(n_grid_mine(p)) |-> v[b][GlobalOf(p, l)]]]

NoPlan == [ok |-> FALSE]

\* no call of get_index is observed
NoRet == [index |-> -1, is_conj |-> FALSE]

InitWith(cfg, np, ns, nb, F) ==
    /\ shape = cfg.shape
    /\ rot = cfg.rot
    /\ trans = cfg.trans
    /\ n_procs = np
    /\ split_procs = ns
    /\ n_batch = nb
    /\ v_in = [b \in Range(nb) |-> BatchRow(F, b)]
    /\ pc = [p \in Range(np) |-> "new"]
    /\ self = [p \in Range(np) |-> NoPlan]
    /\ v_data = [p \in Range(np) |-> Local(v_in, p)]
    /\ src_data = [p \in Range(np) |-> <<>>]
    /\ dest_data = [p \in Range(np) |-> <<>>]
    /\ coll = [p \in Range(np) |-> <<>>]
    /\ calls = [p \in Range(np) |-> 0]
    /\ v_out = [p \in Range(np) |-> <<>>]
    /\ arg_iH = <<0, 0, 0>>
    /\ ret = NoRet
    /\ OthersIdle

Init ==
    \E cfg \in Configs, np \in 1 .. MaxProcs, nb \in {1, MaxBatch} :
        \E F \in Fields(n_grid_tot(cfg.shape)) :
            InitWith(cfg, np, np, nb, F)


\* ----------------------------------------------------------------- actions
\* an element of a freshly allocated buffer (torch.empty) that nothing has
\* written yet, and the values such an element may turn out to hold
Uninit == <<0, 0, 0>>
Junk == {CZero, <<1, 1, 1>>}

\* the buffer a process finds after an exchange that left elements unwritten
Settle(buf, junk) == [j \in DOMAIN buf |-> IF buf[j] = Uninit THEN junk ELSE buf[j]]

\* mutant: the offsets are not scaled by the batch size
gather_args_offsets_unscaled(sp, nb) ==
    [kind         |-> "gather",
     send_counts  |-> [q \in Range(Cardinality(DOMAIN sp.send_prev) - 1) |->
                          (sp.send_prev[q + 1] - sp.send_prev[q]) * nb],
     send_offsets |-> [q \in Range(Cardinality(DOMAIN sp.send_prev) - 1) |->
                          sp.send_prev[q]],
     recv_counts  |-> [q \in Range(Cardinality(DOMAIN sp.recv_prev) - 1) |->
                          (sp.recv_prev[q + 1] - sp.recv_prev[q]) * nb],
     recv_offsets |-> [q \in Range(Cardinality(DOMAIN sp.recv_prev) - 1) |->
                          sp.recv_prev[q]]]

\* the counts and offsets of the gather exchange (lines 122-125)
gather_args(sp, nb) ==
    [kind         |-> "gather",
     send_counts  |-> [q \in Range(Cardinality(DOMAIN sp.send_prev) - 1) |->
                          (sp.send_prev[q + 1] - sp.send_prev[q]) * nb],
     send_offsets |-> [q \in Range(Cardinality(DOMAIN sp.send_prev) - 1) |->
                          sp.send_prev[q] * nb],
     recv_counts  |-> [q \in Range(Cardinality(DOMAIN sp.recv_prev) - 1) |->
                          (sp.recv_prev[q + 1] - sp.recv_prev[q]) * nb],
     recv_offsets |-> [q \in Range(Cardinality(DOMAIN sp.recv_prev) - 1) |->
                          sp.recv_prev[q] * nb]]

\* mutant: the scatter exchange reuses the gather roles unswapped
scatter_args_not_swapped(g) ==
    [kind         |-> "scatter",
     send_counts  |-> g.send_counts,
     send_offsets |-> g.send_offsets,
     recv_counts  |-> g.recv_counts,
     recv_offsets |-> g.recv_offsets]

\* the counts and offsets of the scatter exchange (lines 157-160)
scatter_args(g) ==
    [kind         |-> "scatter",
     send_counts  |-> g.recv_counts,
     send_offsets |-> g.recv_offsets,
     recv_counts  |-> g.send_counts,
     recv_offsets |-> g.send_offsets]

\* FieldSymmetrizer(grid) on process p
Construct(p) ==
    /\ pc[p] = "new"
    /\ LET plan == Plan(shape, rot, trans, n_procs, split_procs, p)
       IN  IF plan.ok
           THEN /\ self' = [self EXCEPT ![p] = plan]
                /\ pc' = [pc EXCEPT ![p] = "ready"]
           ELSE /\ self' = self
                /\ pc' = [pc EXCEPT ![p] = "ctor_failed"]
    /\ UNCHANGED <<otherVars, arg_iH, ret, shape, rot, trans, n_procs, split_procs, n_batch, v_in,
                   v_data, src_data, dest_data, coll, calls, v_out>>

\* __call__ with n_procs = 1 (lines 103-113, 134-153, 165-172)
CallSerial ==
    /\ n_procs = 1
    /\ pc[0] = "ready"
    /\ calls[0] < MaxCalls
    /\ LET sp       == self[0]
           v_orbits == [b \in Range(n_batch) |->
                           [f \in DOMAIN sp.index |-> v_data[0][b][sp.index[f]]]]
           v_new    == symm_perform(v_orbits, sp)
           v_acc    == index_put_accumulate(zero_(v_data[0]), sp.index, v_new)
       IN  IF CanBroadcast(Cardinality(DOMAIN sp.inv_multiplicity), n_grid_mine(0))
           THEN /\ v_data' = [v_data EXCEPT ![0] = normalize(v_acc, sp.inv_multiplicity)]
                /\ pc' = pc
                /\ calls' = [calls EXCEPT ![0] = @ + 1]
                /\ v_out' = [v_out EXCEPT ![0] = Append(@, v_data'[0])]
           ELSE /\ v_data' = [v_data EXCEPT ![0] = v_acc]
                /\ pc' = [pc EXCEPT ![0] = "call_failed"]
                /\ UNCHANGED <<calls, v_out>>
    /\ UNCHANGED <<otherVars, arg_iH, ret, shape, rot, trans, n_procs, split_procs, n_batch, v_in,
                   self, src_data, dest_data, coll>>

\* mutant: the field buffer is cleared before it has been packed
CallGather_zeroes_first(p) ==
    /\ n_procs > 1
    /\ pc[p] = "ready"
    /\ calls[p] < MaxCalls
    /\ v_data' = [v_data EXCEPT ![p] = zero_(@)]
    /\ src_data' = [src_data EXCEPT ![p] =
           [f \in Range(Cardinality(DOMAIN self[p].grid_index) * n_batch) |->
               v_data'[p][f % n_batch][self[p].grid_index[f \div n_batch]]]]
    /\ dest_data' = [dest_data EXCEPT ![p] =
           [f \in Range(Cardinality(DOMAIN self[p].recv_index) * n_batch) |-> Uninit]]
    /\ coll' = [coll EXCEPT ![p] = <<gather_args(self[p], n_batch)>>]
    /\ pc' = [pc EXCEPT ![p] = "gather_wait"]
    /\ UNCHANGED <<otherVars, arg_iH, ret, shape, rot, trans, n_procs, split_procs, n_batch, v_in,
                   self, calls, v_out>>

\* mutant: a process that owns no orbit returns without joining the exchanges
CallGather_skips_when_empty(p) ==
    /\ n_procs > 1
    /\ pc[p] = "ready"
    /\ calls[p] < MaxCalls
    /\ IF self[p].n_orbits_mine = 0
       THEN /\ calls' = [calls EXCEPT ![p] = @ + 1]
            /\ v_out' = [v_out EXCEPT ![p] = Append(@, v_data[p])]
            /\ UNCHANGED <<pc, src_data, dest_data, coll>>
       ELSE /\ src_data' = [src_data EXCEPT ![p] =
                   [f \in Range(Cardinality(DOMAIN self[p].grid_index) * n_batch) |->
                       v_data[p][f % n_batch][self[p].grid_index[f \div n_batch]]]]
            /\ dest_data' = [dest_data EXCEPT ![p] =
                   [f \in Range(Cardinality(DOMAIN self[p].recv_index) * n_batch) |->
                       Uninit]]
            /\ coll' = [coll EXCEPT ![p] = <<gather_args(self[p], n_batch)>>]
            /\ pc' = [pc EXCEPT ![p] = "gather_wait"]
            /\ UNCHANGED <<calls, v_out>>
    /\ UNCHANGED <<otherVars, arg_iH, ret, shape, rot, trans, n_procs, split_procs, n_batch, v_in,
                   self, v_data>>

\* __call__ with n_procs > 1 up to the gather exchange (lines 103-129)
CallGather(p) ==
    /\ n_procs > 1
    /\ pc[p] = "ready"
    /\ calls[p] < MaxCalls
    /\ LET sp == self[p]
           n_send == Cardinality(DOMAIN sp.grid_index)
           n_recv == Cardinality(DOMAIN sp.recv_index)
       IN  /\ src_data' = [src_data EXCEPT ![p] =
                  [f \in Range(n_send * n_batch) |->
                      v_data[p][f % n_batch][sp.grid_index[f \div n_batch]]]]
           /\ dest_data' = [dest_data EXCEPT ![p] =
                  [f \in Range(n_recv * n_batch) |-> Uninit]]
           /\ coll' = [coll EXCEPT ![p] = <<gather_args(sp, n_batch)>>]
    /\ pc' = [pc EXCEPT ![p] = "gather_wait"]
    /\ UNCHANGED <<otherVars, arg_iH, ret, shape, rot, trans, n_procs, split_procs, n_batch, v_in,
                   self, v_data, calls, v_out>>

\* the gather Alltoallv completes once every process has issued it; with
\* counts that do not match pairwise the exchange is erroneous and the job
\* aborts or hangs
GatherExchange ==
    /\ \A p \in Procs : pc[p] = "gather_wait"
    /\ LET args == [p \in Procs |-> coll[p][1]]
       IN  IF CountsMatch(Procs, args)
           THEN /\ \E junk \in Junk :
                       dest_data' = [q \in Procs |->
                           Settle(Alltoallv(Procs, src_data, args, dest_data, q), junk)]
                /\ pc' = [p \in Procs |-> "gathered"]
           ELSE /\ dest_data' = dest_data
                /\ \E outcome \in {"mpi_error", "gather_wait"} :
                       pc' = [p \in Procs |-> outcome]
    /\ UNCHANGED <<otherVars, arg_iH, ret, shape, rot, trans, n_procs, split_procs, n_batch, v_in,
                   self, v_data, src_data, coll, calls, v_out>>

\* lines 130-160: rearrange by orbit, symmetrize in each orbit, zero the
\* field buffer, pack and issue the scatter exchange
Symmetrize(p) ==
    /\ pc[p] = "gathered"
    /\ LET sp       == self[p]
           v_orbits == [b \in Range(n_batch) |->
                           [f \in DOMAIN sp.orbit_index |->
                               dest_data[p][sp.orbit_index[f] * n_batch + b]]]
           v_new    == symm_perform(v_orbits, sp)
       IN  /\ v_data' = [v_data EXCEPT ![p] = zero_(@)]
           /\ dest_data' = [dest_data EXCEPT ![p] =
                  [f \in DOMAIN dest_data[p] |->
                      v_new[f % n_batch][sp.recv_index[f \div n_batch]]]]
    /\ coll' = [coll EXCEPT ![p] = Append(@, scatter_args(@[1]))]
    /\ pc' = [pc EXCEPT ![p] = "scatter_wait"]
    /\ UNCHANGED <<otherVars, arg_iH, ret, shape, rot, trans, n_procs, split_procs, n_batch, v_in,
                   self, src_data, calls, v_out>>

\* the scatter Alltoallv completes once every process has issued it
ScatterExchange ==
    /\ \A p \in Procs : pc[p] = "scatter_wait"
    /\ LET args == [p \in Procs |-> coll[p][2]]
       IN  IF CountsMatch(Procs, args)
           THEN /\ src_data' = [q \in Procs |->
                                   Alltoallv(Procs, dest_data, args, src_data, q)]
                /\ pc' = [p \in Procs |-> "scattered"]
           ELSE /\ src_data' = src_data
                /\ \E outcome \in {"mpi_error", "scatter_wait"} :
                       pc' = [p \in Procs |-> outcome]
    /\ UNCHANGED <<otherVars, arg_iH, ret, shape, rot, trans, n_procs, split_procs, n_batch, v_in,
                   self, v_data, dest_data, coll, calls, v_out>>

\* mutant: the normalization uses up the stored weights
Accumulate_consumes_weights(p) ==
    /\ pc[p] = "scattered"
    /\ LET sp     == self[p]
           values == [b \in Range(n_batch) |->
                         [k \in DOMAIN sp.grid_index |-> src_data[p][k * n_batch + b]]]
           v_acc  == index_put_accumulate(v_data[p], sp.grid_index, values)
       IN  /\ v_data' = [v_data EXCEPT ![p] = normalize(v_acc, sp.inv_multiplicity)]
           /\ self' = [self EXCEPT ![p].inv_multiplicity =
                           [l \in DOMAIN sp.inv_multiplicity |-> <<1, 1>>]]
    /\ pc' = [pc EXCEPT ![p] = "ready"]
    /\ calls' = [calls EXCEPT ![p] = @ + 1]
    /\ v_out' = [v_out EXCEPT ![p] = Append(@, v_data'[p])]
    /\ UNCHANGED <<otherVars, arg_iH, ret, shape, rot, trans, n_procs, split_procs, n_batch, v_in,
                   src_data, dest_data, coll>>

\* lines 161-172: accumulate the returned values on the grid and normalize
Accumulate(p) ==
    /\ pc[p] = "scattered"
    /\ LET sp     == self[p]
           values == [b \in Range(n_batch) |->
                         [k \in DOMAIN sp.grid_index |-> src_data[p][k * n_batch + b]]]
           v_acc  == index_put_accumulate(v_data[p], sp.grid_index, values)
       IN  IF CanBroadcast(Cardinality(DOMAIN sp.inv_multiplicity), n_grid_mine(p))
           THEN /\ v_data' = [v_data EXCEPT ![p] = normalize(v_acc, sp.inv_multiplicity)]
                /\ pc' = [pc EXCEPT ![p] = "ready"]
                /\ calls' = [calls EXCEPT ![p] = @ + 1]
                /\ v_out' = [v_out EXCEPT ![p] = Append(@, v_data'[p])]
           ELSE /\ v_data' = [v_data EXCEPT ![p] = v_acc]
                /\ pc' = [pc EXCEPT ![p] = "call_failed"]
                /\ UNCHANGED <<calls, v_out>>
    /\ UNCHANGED <<otherVars, arg_iH, ret, shape, rot, trans, n_procs, split_procs, n_batch, v_in,
                   self, src_data, dest_data, coll>>

Next ==
    \/ \E p \in Procs : Construct(p)
    \/ CallSerial
    \/ \E p \in Procs : CallGather(p)
    \/ GatherExchange
    \/ \E p \in Procs : Symmetrize(p)
    \/ ScatterExchange
    \/ \E p \in Procs : Accumulate(p)

\* the steps of a job of more than one process
NextMulti ==
    \/ \E p \in Procs : Construct(p)
    \/ \E p \in Procs : CallGather(p)
    \/ GatherExchange
    \/ \E p \in Procs : Symmetrize(p)
    \/ ScatterExchange
    \/ \E p \in Procs : Accumulate(p)

Spec == Init /\ [][Next]_vars

\* the field of distinct values on a grid of n points
Ramp(n) == [g \in Range(n) |-> <<g + 1, n - g, 1>>]

\* the jobs whose input is the field of distinct values
InitRamp ==
    \E cfg \in Configs, np \in 1 .. MaxProcs, nb \in {1, MaxBatch} :
        InitWith(cfg, np, np, nb, Ramp(n_grid_tot(cfg.shape)))

\* a step of process p
ProcStep(p) ==
    /\ p \in Procs
    /\ Construct(p) \/ CallGather(p) \/ Symmetrize(p) \/ Accumulate(p)

\* the states in which ProcStep(p) is enabled: the guards of its four steps
CanStep(p) ==
    /\ p \in Procs
    /\ \/ pc[p] \in {"new", "gathered", "scattered"}
       \/ pc[p] = "ready" /\ n_procs > 1 /\ calls[p] < MaxCalls

\* the states in which CallSerial is enabled
CanCallSerial == n_procs = 1 /\ pc[0] = "ready" /\ calls[0] < MaxCalls

\* the states in which an exchange is enabled: every process has issued it
CanExchange ==
    \/ \A p \in Procs : pc[p] = "gather_wait"
    \/ \A p \in Procs : pc[p] = "scatter_wait"

\* weak fairness of action A whose enabling condition is the state predicate
\* en, written out as []<>(~ENABLED <<A>>_vars) \/ []<><<A>>_vars:
\* every process keeps running, and a blocking collective that every
\* process has issued completes
FairSpec ==
    /\ InitRamp
    /\ [][Next]_vars
    /\ \A p \in Range(MaxProcs) :
           []<>(~CanStep(p)) \/ []<><<ProcStep(p)>>_vars
    /\ []<>(~CanCallSerial) \/ []<><<CallSerial>>_vars
    /\ []<>(~CanExchange) \/ []<><<GatherExchange \/ ScatterExchange>>_vars

\* a grid whose split2H was computed for more processes than grid.n_procs
InitMismatch ==
    \E cfg \in Configs, np \in 2 .. MaxProcs, nb \in {1, MaxBatch} :
        \E ns \in np .. MaxProcs, F \in Fields(n_grid_tot(cfg.shape)) :
            InitWith(cfg, np, ns, nb, F)

SpecMismatch == InitMismatch /\ [][NextMulti]_vars


\* rotation matrices that are not unimodular: determinant 2 and determinant 0
RotScale2x == <<<<2, 0, 0>>, <<0, 1, 0>>, <<0, 0, 1>>>>
RotZero == <<<<0, 0, 0>>, <<0, 0, 0>>, <<0, 0, 0>>>>

\* grids whose group holds a rotation matrix that is not unimodular
MalformedConfigs ==
    { [shape |-> <<3, 1, 3>>, rot |-> <<RotE, RotScale2x>>,
       trans |-> <<NoTrans, NoTrans>>],
      [shape |-> <<1, 1, 2>>, rot |-> <<RotE, RotZero>>,
       trans |-> <<NoTrans, NoTrans>>] }

InitMalformed ==
    \E cfg \in MalformedConfigs, np \in 1 .. MaxProcs, nb \in {1, MaxBatch} :
        \E F \in Fields(n_grid_tot(cfg.shape)) :
            InitWith(cfg, np, np, nb, F)

SpecMalformed == InitMalformed /\ [][Next]_vars


\* ------------------------------------------------- get_index on its own
\* the grid shapes get_index is called on
IndexShapes ==
    {cfg.shape : cfg \in Configs} \cup {<<2, 3, 5>>, <<4, 2, 2>>, <<1, 1, 1>>}

\* a call of get_index is about to be made on a grid of some shape with some
\* integer index vector; there is no field and no process
InitIndex ==
    /\ shape \in IndexShapes
    /\ arg_iH \in [1 .. 3 -> -MaxIndex .. MaxIndex]
    /\ ret = NoRet
    /\ rot = <<>> /\ trans = <<>>
    /\ n_procs = 0 /\ split_procs = 0 /\ n_batch = 0
    /\ v_in = <<>> /\ pc = <<>> /\ self = <<>> /\ v_data = <<>>
    /\ src_data = <<>> /\ dest_data = <<>> /\ coll = <<>>
    /\ calls = <<>> /\ v_out = <<>>
    /\ OthersIdle

\* lines 21-27: the call; iH % shapeR is a new tensor, so the assignment of
\* line 26 does not reach the argument
GetIndex ==
    /\ ret = NoRet
    /\ ret' = get_index(shape, arg_iH)
    /\ arg_iH' = arg_iH
    /\ UNCHANGED <<otherVars, shape, rot, trans, n_procs, split_procs, n_batch,
                   v_in, pc, self, v_data, src_data, dest_data, coll, calls, v_out>>

SpecIndex == InitIndex /\ [][GetIndex]_vars


\* ------------------------------------------------- real-basis book-keeping
\* (qimpy/electrons/_basis_real.py, class BasisReal)

\* no field symmetrizer is in use
FieldIdle ==
    /\ shape = <<>> /\ rot = <<>> /\ trans = <<>>
    /\ n_procs = 0 /\ split_procs = 0 /\ n_batch = 0
    /\ v_in = <<>> /\ pc = <<>> /\ self = <<>> /\ v_data = <<>>
    /\ src_data = <<>> /\ dest_data = <<>> /\ coll = <<>>
    /\ calls = <<>> /\ v_out = <<>>
    /\ arg_iH = <<0, 0, 0>> /\ ret = NoRet

\* complex conjugate of a value: Tensor.conj()
CConj(a) == <<a[1], -a[2], a[3]>>

\* the basis (collaborator): the plane waves are the points sel of the
\* half-space mesh of the process-local wavefunction grid, in mesh order;
\* iG holds their integer vectors and fft_index their mesh indices
Basis(grid_shape, sel, n_procs_b) ==
    LET order == SortedArr(sel)
    IN  [shape |-> grid_shape,
         n_tot |-> Cardinality(sel),
         n_procs |-> n_procs_b,
         iG |-> [i \in DOMAIN order |-> get_mesh(grid_shape, order[i])],
         fft_index |-> order]

\* basis.division on process i_proc
division(b, i_proc) == TaskDivision(b.n_tot, b.n_procs, i_proc)

\* line 31: torch.where(iGz == 0)[0]
iz0(b) == SortedArr({i \in Range(b.n_tot) : b.iG[i][3] = 0})

\* lines 34-35
plane_index(b) ==
    LET z0 == iz0(b)
    IN  [k \in DOMAIN z0 |-> b.fft_index[z0[k]] \div ShapeH(b.shape)[3]]

\* lines 36-38
plane_index_conj(b) ==
    LET z0 == iz0(b)
        sH == ShapeH(b.shape)
    IN  [k \in DOMAIN z0 |->
            ((-b.iG[z0[k]][1]) % sH[1]) * sH[2] + ((-b.iG[z0[k]][2]) % sH[2])]

\* lines 40-42 and 45: a zero-filled plane with vals written at index
plane(n_plane, index, vals) ==
    [c \in Range(n_plane) |->
        IF \E k \in DOMAIN index : index[k] = c
        THEN vals[CHOOSE k \in DOMAIN index : index[k] = c]
        ELSE 0]

\* line 43
iz0_conj(b) ==
    LET sH == ShapeH(b.shape)
        pl == plane(sH[1] * sH[2], plane_index(b), iz0(b))
        pc_ == plane_index_conj(b)
    IN  [k \in DOMAIN pc_ |-> pl[pc_[k]]]

\* lines 45-46
iz0_conj_self(b) ==
    LET sH == ShapeH(b.shape)
        pi_ == plane_index(b)
        pl == plane(sH[1] * sH[2], pi_, [k \in DOMAIN pi_ |-> k])
        pc_ == plane_index_conj(b)
    IN  [k \in DOMAIN pc_ |-> pl[pc_[k]]]

\* lines 49-50 on process i_proc
mine(b, i_proc) ==
    LET z0 == iz0(b)
        div == division(b, i_proc)
    IN  SortedArr({k \in DOMAIN z0 : z0[k] >= div.i_start /\ z0[k] < div.i_stop})

\* line 53: np.cumsum([0] + comm_b.allgather(len(mine)))
nz0_prev(b) ==
    LET len_mine == [q \in Range(b.n_procs) |-> Cardinality(DOMAIN mine(b, q))]
    IN  [j \in 0 .. b.n_procs |-> SumTo(len_mine, j)]

\* lines 21-53: the object the constructor builds on process i_proc
BasisReal(b, i_proc) ==
    LET z0 == iz0(b)
        zc == iz0_conj(b)
        m  == mine(b, i_proc)
    IN  [iz0 |-> z0,
         iz0_conj |-> zc,
         iz0_conj_self |-> iz0_conj_self(b),
         iz0_mine_local |-> [k \in DOMAIN m |-> z0[m[k]] - division(b, i_proc).i_start],
         iz0_mine_conj |-> [k \in DOMAIN m |-> zc[m[k]]],
         nz0_prev |-> nz0_prev(b)]

\* mutant: the partner's coefficient is added without conjugation
symmetrize_z0_no_conj(cz, conj_self) ==
    [r \in DOMAIN cz |->
        [k \in DOMAIN cz[r] |->
            CDiv(CAdd(cz[r][k], cz[r][conj_self[k]]), 2)]]

\* line 87 on the collected coefficients cz[r][k]
symmetrize_z0(cz, conj_self) ==
    [r \in DOMAIN cz |->
        [k \in DOMAIN cz[r] |->
            CDiv(CAdd(cz[r][k], CConj(cz[r][conj_self[k]])), 2)]]

\* lines 84-95 when all coefficients are local
symmetrize_local(c, br) ==
    LET cz  == [r \in DOMAIN c |-> [k \in DOMAIN br.iz0 |-> c[r][br.iz0[k]]]]
        new == symmetrize_z0(cz, br.iz0_conj_self)
    IN  [r \in DOMAIN c |->
            [i \in DOMAIN c[r] |->
                IF \E k \in DOMAIN br.iz0 : br.iz0[k] = i
                THEN new[r][CHOOSE k \in DOMAIN br.iz0 : br.iz0[k] = i]
                ELSE c[r][i]]]

\* lines 71-73: the local Gz = 0 coefficients with the basis index in front
pack_z0_mine(c, br) ==
    LET n_rest == Cardinality(DOMAIN c)
    IN  [f \in Range(Cardinality(DOMAIN br.iz0_mine_local) * n_rest) |->
            c[f % n_rest][br.iz0_mine_local[f \div n_rest]]]

\* lines 75-78: the counts of the Allgatherv on one process
allgatherv_args(c, br) ==
    LET n_rest == Cardinality(DOMAIN c)
        np_    == Cardinality(DOMAIN br.nz0_prev) - 1
    IN  [sendcount  |-> Cardinality(DOMAIN br.iz0_mine_local) * n_rest,
         recvcounts |-> [q \in Range(np_) |->
                            (br.nz0_prev[q + 1] - br.nz0_prev[q]) * n_rest],
         offsets    |-> [q \in Range(np_) |-> br.nz0_prev[q] * n_rest]]

\* lines 79-81: what the Allgatherv leaves in the receive buffer recv of a
\* process whose arguments are args, the processes having sent sends[q]
Allgatherv(recv, args, sends) ==
    [f \in DOMAIN recv |->
        IF \E q \in DOMAIN sends :
               f >= args.offsets[q] /\ f < args.offsets[q] + args.recvcounts[q]
        THEN LET q == CHOOSE q \in DOMAIN sends :
                          f >= args.offsets[q] /\ f < args.offsets[q] + args.recvcounts[q]
             IN  sends[q][f - args.offsets[q]]
        ELSE recv[f]]

\* lines 82-93: the receive buffer with the basis index back at the end,
\* symmetrized, and the slice of this process stored into its coefficients
symmetrize_set(c, recv, br, i_proc) ==
    LET n_rest  == Cardinality(DOMAIN c)
        nz0     == Cardinality(DOMAIN recv) \div n_rest
        cz      == [r \in Range(n_rest) |-> [k \in Range(nz0) |-> recv[k * n_rest + r]]]
        new     == symmetrize_z0(cz, br.iz0_conj_self)
        z0_start == br.nz0_prev[i_proc]
        loc     == br.iz0_mine_local
    IN  [r \in DOMAIN c |->
            [i \in DOMAIN c[r] |->
                IF \E k \in DOMAIN loc : loc[k] = i
                THEN new[r][z0_start + (CHOOSE k \in DOMAIN loc : loc[k] = i)]
                ELSE c[r][i]]]

\* the wavefunction grids and kinetic-energy cutoffs of the bases
RealShapes == {<<3, 3, 2>>, <<3, 4, 3>>}
Cutoffs == {1, 2}

\* the mesh points within a cutoff
Sphere(grid_shape, cutoff) ==
    {g \in Range(n_grid_tot(grid_shape)) :
        Dot(get_mesh(grid_shape, g), get_mesh(grid_shape, g)) <= cutoff}

\* the point sets of the bases: a sphere, whole or with one of its Gz = 0
\* points or one of its Gz = 1 points left out
PointSets(grid_shape) ==
    UNION {{Sphere(grid_shape, c), Sphere(grid_shape, c) \ {ShapeH(grid_shape)[3]},
            Sphere(grid_shape, c) \ {1}} : c \in Cutoffs}

\* coefficient r of plane wave i in the inputs: a ramp, or one nonzero value
Coeffs(n_rest, n_tot) ==
    {[r \in Range(n_rest) |-> [i \in Range(n_tot) |-> <<i + 1 + r, n_tot - i, 1>>]]}
    \cup {[r \in Range(n_rest) |->
             [i \in Range(n_tot) |-> IF i = h THEN <<1, 1 + r, 1>> ELSE CZero]] :
          h \in Range(n_tot)}

Procs_b == Range(basis.n_procs)

\* the part of the global coefficients c that process p holds when they are
\* split over the basis: n_each entries, those past n_mine being padding
LocalCoeff(c, b, p) ==
    LET div == division(b, p)
    IN  [r \in DOMAIN c |->
            [l \in Range(div.n_each) |->
                IF div.i_start + l < div.i_stop THEN c[r][div.i_start + l] ELSE CZero]]

\* a basis with real wavefunctions on each process of comm_b, and
\* coefficients that every process holds in full or that are split
InitReal ==
    /\ FieldIdle /\ XcIdle /\ DocIdle /\ AdvIdle
    /\ \E gs \in RealShapes, np \in 1 .. MaxProcs :
           \E sel \in PointSets(gs) : basis = Basis(gs, sel, np)
    /\ \E n_rest \in {1, 2} : coeff_in \in Coeffs(n_rest, basis.n_tot)
    /\ \E split \in BOOLEAN :
           coeff = [p \in Procs_b |->
                       IF split THEN LocalCoeff(coeff_in, basis, p) ELSE coeff_in]
    /\ real = [p \in Procs_b |-> NoPlan]
    /\ coeff_z0_mine = [p \in Procs_b |-> <<>>]
    /\ coeff_z0 = [p \in Procs_b |-> <<>>]
    /\ pc_real = [p \in Procs_b |-> "new"]

\* the last dimension of the coefficients of process p: coeff.shape[-1]
LastDim(p) == Cardinality(DOMAIN coeff[p][0])

\* line 67
is_split(p) == ~(LastDim(p) = basis.n_tot)

\* lines 21-53
ConstructReal(p) ==
    /\ pc_real[p] = "new"
    /\ real' = [real EXCEPT ![p] = BasisReal(basis, p)]
    /\ pc_real' = [pc_real EXCEPT ![p] = "ready"]
    /\ UNCHANGED <<fieldVars, xcVars, docVars, advVars, basis, coeff_in, coeff, coeff_z0_mine, coeff_z0>>

\* lines 62-95 with is_split false
SymmetrizeLocal(p) ==
    /\ pc_real[p] = "ready"
    /\ ~is_split(p)
    /\ coeff' = [coeff EXCEPT ![p] = symmetrize_local(@, real[p])]
    /\ pc_real' = [pc_real EXCEPT ![p] = "done"]
    /\ UNCHANGED <<fieldVars, xcVars, docVars, advVars, basis, coeff_in, real, coeff_z0_mine, coeff_z0>>

\* lines 67-81 with is_split true, up to the call of Allgatherv
SymmetrizePack(p) ==
    /\ pc_real[p] = "ready"
    /\ is_split(p)
    /\ coeff_z0' = [coeff_z0 EXCEPT ![p] =
           [f \in Range(real[p].nz0_prev[basis.n_procs] * Cardinality(DOMAIN coeff[p])) |->
               Uninit]]
    /\ coeff_z0_mine' = [coeff_z0_mine EXCEPT ![p] = pack_z0_mine(coeff[p], real[p])]
    /\ pc_real' = [pc_real EXCEPT ![p] = "allgather_wait"]
    /\ UNCHANGED <<fieldVars, xcVars, docVars, advVars, basis, coeff_in, coeff, real>>

\* lines 79-81: the collective completes once every process has called it
AllgathervExchange ==
    /\ \A p \in Procs_b : pc_real[p] = "allgather_wait"
    /\ coeff_z0' = [p \in Procs_b |->
           Allgatherv(coeff_z0[p], allgatherv_args(coeff[p], real[p]), coeff_z0_mine)]
    /\ pc_real' = [p \in Procs_b |-> "gathered"]
    /\ UNCHANGED <<fieldVars, xcVars, docVars, advVars, basis, coeff_in, coeff, real, coeff_z0_mine>>

\* lines 82-93
SymmetrizeSet(p) ==
    /\ pc_real[p] = "gathered"
    /\ coeff' = [coeff EXCEPT ![p] = symmetrize_set(@, coeff_z0[p], real[p], p)]
    /\ pc_real' = [pc_real EXCEPT ![p] = "done"]
    /\ UNCHANGED <<fieldVars, xcVars, docVars, advVars, basis, coeff_in, real, coeff_z0_mine, coeff_z0>>

NextReal ==
    \/ \E p \in Procs_b : ConstructReal(p)
    \/ \E p \in Procs_b : SymmetrizeLocal(p)
    \/ \E p \in Procs_b : SymmetrizePack(p)
    \/ AllgathervExchange
    \/ \E p \in Procs_b : SymmetrizeSet(p)

SpecReal == InitReal /\ [][NextReal]_vars


\* ------------------------------------------------------- Libxc functionals
\* (qimpy/electrons/xc/functional.py, classes _FunctionalLibxc and
\* FunctionalsLibxc).  A scale factor is a fraction <<numerator, denominator>>.

\* pylibxc (library): family, kind and flags of the functionals in use
LibxcCatalogue ==
    [lda_x            |-> [family |-> "LDA", kind |-> "EXCHANGE",
                           have_exc |-> TRUE, needs_laplacian |-> FALSE],
     gga_c_pbe        |-> [family |-> "GGA", kind |-> "CORRELATION",
                           have_exc |-> TRUE, needs_laplacian |-> FALSE],
     gga_x_lb         |-> [family |-> "GGA", kind |-> "EXCHANGE",
                           have_exc |-> FALSE, needs_laplacian |-> FALSE],
     mgga_x_br89      |-> [family |-> "MGGA", kind |-> "EXCHANGE",
                           have_exc |-> TRUE, needs_laplacian |-> TRUE],
     hyb_gga_xc_b3lyp |-> [family |-> "HYB_GGA", kind |-> "EXCHANGE_CORRELATION",
                           have_exc |-> TRUE, needs_laplacian |-> FALSE]]

LibxcNames == DOMAIN LibxcCatalogue

\* the output quantities of Libxc and a number for each of them
Labels == <<"zk", "vrho", "vsigma", "vlapl", "vtau">>
LabelNo(label) == CHOOSE k \in DOMAIN Labels : Labels[k] = label
LibxcNameSeq == <<"lda_x", "gga_c_pbe", "gga_x_lb", "mgga_x_br89", "hyb_gga_xc_b3lyp">>
NameNo(name) == CHOOSE k \in DOMAIN LibxcNameSeq : LibxcNameSeq[k] = name

\* pylibxc.LibXCFunctional.compute (library): one value per element of the
\* input the output belongs to, zk having one per grid point; the values
\* differ between functionals, labels and densities
compute(functional, in, do_exc) ==
    LET val(label, len) ==
            [k \in Range(len) |->
                NameNo(functional.name) * Len(Labels) + LabelNo(label)
                + in.rho[k % Cardinality(DOMAIN in.rho)]]
        always == [vrho |-> val("vrho", Cardinality(DOMAIN in.rho))]
        exc    == IF do_exc THEN [zk |-> val("zk", NPoints)] ELSE <<>>
        sig    == IF "sigma" \in DOMAIN in
                  THEN [vsigma |-> val("vsigma", Cardinality(DOMAIN in.sigma))] ELSE <<>>
        lapl   == IF "lapl" \in DOMAIN in
                  THEN [vlapl |-> val("vlapl", Cardinality(DOMAIN in.lapl))] ELSE <<>>
        tau    == IF "tau" \in DOMAIN in
                  THEN [vtau |-> val("vtau", Cardinality(DOMAIN in.tau))] ELSE <<>>
    IN  always @@ exc @@ sig @@ lapl @@ tau

\* lines 109-180: _FunctionalLibxc(spin_str, name, scale_factor); the
\* scale_factor argument is used in the log message of lines 167-169 only
FunctionalLibxc(spin_str, name, scale_factor) ==
    LET func   == LibxcCatalogue[name]
        family == func.family
        kind   == func.kind
        needs_sigma == family \in {"GGA", "MGGA"}
        needs_tau   == family = "MGGA"
        needs_lap   == family = "MGGA" /\ func.needs_laplacian
        has_energy  == func.have_exc
    IN  IF family \notin {"LDA", "HYB_LDA", "GGA", "HYB_GGA", "MGGA", "HYB_MGGA"}
        THEN [raised |-> "KeyError"]
        ELSE IF family \in {"HYB_LDA", "HYB_GGA", "HYB_MGGA"}
        THEN [raised |-> "NotImplementedError"]
        ELSE IF kind \notin {"EXCHANGE", "CORRELATION", "EXCHANGE_CORRELATION", "KINETIC"}
        THEN [raised |-> "KeyError"]
        ELSE [raised |-> "",
              functional |-> [name |-> name, spin |-> spin_str],
              needs_sigma |-> needs_sigma,
              needs_lap |-> needs_lap,
              needs_tau |-> needs_tau,
              has_exchange |-> kind \in {"EXCHANGE", "EXCHANGE_CORRELATION"},
              has_correlation |-> kind \in {"CORRELATION", "EXCHANGE_CORRELATION"},
              has_kinetic |-> kind = "KINETIC",
              has_energy |-> has_energy,
              output_labels |-> <<"vrho">>
                                \o (IF has_energy THEN <<"zk">> ELSE <<>>)
                                \o (IF needs_sigma THEN <<"vsigma">> ELSE <<>>)
                                \o (IF needs_lap THEN <<"vlapl">> ELSE <<>>)
                                \o (IF needs_tau THEN <<"vtau">> ELSE <<>>)]

\* lines 182-188: _FunctionalLibxc.__call__, the outputs after the call
FunctionalLibxc_call(f, in, outs) ==
    LET out == compute(f.functional, in, f.has_energy)
        labels == {f.output_labels[k] : k \in DOMAIN f.output_labels}
    IN  [label \in DOMAIN outs |->
            IF label \in labels
            THEN [k \in DOMAIN outs[label] |-> outs[label][k] + out[label][k]]
            ELSE outs[label]]

\* lines 197-213: FunctionalsLibxc.__init__
FunctionalsLibxc(polarized, names) ==
    LET spin_str == IF polarized THEN "polarized" ELSE "unpolarized"
        fs == [k \in DOMAIN names |-> FunctionalLibxc(spin_str, names[k][1], names[k][2])]
    IN  IF \E k \in DOMAIN fs : fs[k].raised # ""
        THEN [raised |-> fs[CHOOSE k \in DOMAIN fs :
                                fs[k].raised # "" /\ \A j \in 1 .. (k - 1) : fs[j].raised = ""].raised]
        ELSE [raised |-> "",
              functionals |-> fs,
              needs_sigma |-> \E k \in DOMAIN fs : fs[k].needs_sigma,
              needs_lap |-> \E k \in DOMAIN fs : fs[k].needs_lap,
              needs_tau |-> \E k \in DOMAIN fs : fs[k].needs_tau,
              has_exchange |-> \E k \in DOMAIN fs : fs[k].has_exchange,
              has_correlation |-> \E k \in DOMAIN fs : fs[k].has_correlation,
              has_kinetic |-> \E k \in DOMAIN fs : fs[k].has_kinetic,
              has_energy |-> \A k \in DOMAIN fs : fs[k].has_energy,
              scale_factor |-> <<1, 1>>]

\* spin channels of n, lap and tau, and of sigma
n_spin == IF spin_polarized THEN 2 ELSE 1
n_spin_sigma == IF spin_polarized THEN 3 ELSE 1

\* lines 215-217: to_xc of a tensor v[channel][point]: spin last
to_xc(v) ==
    LET n_ch == Cardinality(DOMAIN v)
    IN  [k \in Range(NPoints * n_ch) |-> v[k % n_ch][k \div n_ch]]

\* lines 219-224: from_xc of an array for a tensor of n_ch channels: spin first
from_xc(v, n_ch) == [ch \in Range(n_ch) |-> [pt \in Range(NPoints) |-> v[pt * n_ch + ch]]]

\* the scale factors given in libxc_names
Scales == {<<1, 1>>, <<1, 2>>, <<2, 1>>}

\* dictionaries libxc_names of up to MaxFunctionals distinct functionals
NameLists ==
    {s \in UNION {[1 .. n -> LibxcNames \X Scales] : n \in 1 .. MaxFunctionals} :
        \A j, k \in DOMAIN s : j # k => s[j][1] # s[k][1]}

\* densities n[channel][point]
Densities(n_ch) ==
    {[ch \in Range(n_ch) |-> [pt \in Range(NPoints) |-> 1]],
     [ch \in Range(n_ch) |-> [pt \in Range(NPoints) |-> 1 + ch + pt * n_ch]]}

InitXc ==
    /\ FieldIdle /\ RealIdle /\ DocIdle /\ AdvIdle
    /\ libxc_names \in NameLists
    /\ spin_polarized \in BOOLEAN
    /\ rho \in Densities(n_spin)
    /\ xc = NoPlan
    /\ inputs = <<>> /\ outputs = <<>> /\ i_functional = 0 /\ xc_ret = <<>>
    /\ pc_xc = "new"

\* lines 197-213
ConstructXc ==
    /\ pc_xc = "new"
    /\ xc' = FunctionalsLibxc(spin_polarized, libxc_names)
    /\ pc_xc' = IF xc'.raised = "" THEN "ready" ELSE "ctor_failed"
    /\ UNCHANGED <<fieldVars, realVars, docVars, advVars, libxc_names, spin_polarized, rho, inputs,
                   outputs, i_functional, xc_ret>>

\* lines 229-240: sigma, lap and tau of the caller are all ones
CallPrepare ==
    /\ pc_xc = "ready"
    /\ LET ones(n_ch) == [ch \in Range(n_ch) |-> [pt \in Range(NPoints) |-> 1]]
       IN  inputs' = [rho |-> to_xc(rho)]
                     @@ (IF xc.needs_sigma THEN [sigma |-> to_xc(ones(n_spin_sigma))] ELSE <<>>)
                     @@ (IF xc.needs_lap THEN [lapl |-> to_xc(ones(n_spin))] ELSE <<>>)
                     @@ (IF xc.needs_tau THEN [tau |-> to_xc(ones(n_spin))] ELSE <<>>)
    /\ outputs' = [vrho |-> [k \in DOMAIN inputs'.rho |-> 0],
                   zk |-> [k \in Range(NPoints) |-> 0]]
                  @@ (IF xc.needs_sigma THEN [vsigma |-> [k \in DOMAIN inputs'.sigma |-> 0]] ELSE <<>>)
                  @@ (IF xc.needs_lap THEN [vlapl |-> [k \in DOMAIN inputs'.lapl |-> 0]] ELSE <<>>)
                  @@ (IF xc.needs_tau THEN [vtau |-> [k \in DOMAIN inputs'.tau |-> 0]] ELSE <<>>)
    /\ i_functional' = 0
    /\ pc_xc' = "compute"
    /\ UNCHANGED <<fieldVars, realVars, docVars, advVars, libxc_names, spin_polarized, xc, rho, xc_ret>>

\* lines 243-244: one turn of the loop over the functionals
CallFunctional ==
    /\ pc_xc = "compute"
    /\ i_functional < Len(xc.functionals)
    /\ outputs' = FunctionalLibxc_call(xc.functionals[i_functional + 1], inputs, outputs)
    /\ i_functional' = i_functional + 1
    /\ UNCHANGED <<fieldVars, realVars, docVars, advVars, libxc_names, spin_polarized, xc, rho, inputs,
                   xc_ret, pc_xc>>

\* lines 247-255: the gradients, zero before the call, and the energy returned
CallFinish ==
    /\ pc_xc = "compute"
    /\ i_functional = Len(xc.functionals)
    /\ LET e == from_xc(outputs.zk, 1)
           n_e == [k \in Range(NPoints * n_spin) |->
                      rho[k % n_spin][k \div n_spin] * e[0][k \div n_spin]]
       IN  xc_ret' = [energy |-> SumTo(n_e, NPoints * n_spin),
                      n_grad |-> from_xc(outputs.vrho, n_spin)]
                     @@ (IF xc.needs_sigma
                         THEN [sigma_grad |-> from_xc(outputs.vsigma, n_spin_sigma)]
                         ELSE <<>>)
                     @@ (IF xc.needs_lap
                         THEN [lap_grad |-> from_xc(outputs.vlapl, n_spin)] ELSE <<>>)
                     @@ (IF xc.needs_tau
                         THEN [tau_grad |-> from_xc(outputs.vtau, n_spin)] ELSE <<>>)
    /\ pc_xc' = "done"
    /\ UNCHANGED <<fieldVars, realVars, docVars, advVars, libxc_names, spin_polarized, xc, rho, inputs,
                   outputs, i_functional>>

NextXc == ConstructXc \/ CallPrepare \/ CallFunctional \/ CallFinish

SpecXc == InitXc /\ [][NextXc]_vars


\* ------------------------------------------------------------ yaml_remove
\* (docs/source/_ext/yamldoc.py).  A string is the sequence of its
\* characters; positions are the source's 0-based indices.

\* sub occurs in s at position i
OccursAt(s, sub, i) ==
    /\ i >= 0 /\ i + Len(sub) <= Len(s)
    /\ \A j \in 1 .. Len(sub) : s[i + j] = sub[j]

\* str.find(sub, start): the lowest position from start on, or -1
find(s, sub, start) ==
    IF \E i \in start .. Len(s) : OccursAt(s, sub, i)
    THEN SetMin({i \in start .. Len(s) : OccursAt(s, sub, i)})
    ELSE -1

\* s[a:b] for a, b >= 0
slice(s, a, b) == SubSeq(s, a + 1, IF b < Len(s) THEN b ELSE Len(s))

RECURSIVE replace(_, _)
\* str.replace(old, ''): every occurrence of old taken out, left to right;
\* with old the empty string the result is the string itself
replace(s, old) ==
    IF old = <<>> THEN s
    ELSE LET i == find(s, old, 0)
         IN  IF i < 0 THEN s
             ELSE SubSeq(s, 1, i) \o replace(SubSeq(s, i + Len(old) + 1, Len(s)), old)

\* the backquote character
BQ == "backquote"

\* line 205
key == <<":", "y", "a", "m", "l", ":">>

\* the pieces docstrings are put together from: a whole role, a key alone,
\* a backquote, a letter
Pieces == {key \o <<BQ, "x", BQ>>, key, <<BQ>>, <<"x">>}

RECURSIVE Joined(_)
Joined(ps) == IF ps = <<>> THEN <<>> ELSE Head(ps) \o Joined(Tail(ps))

Docstrings == {Joined(ps) : ps \in UNION {[1 .. n -> Pieces] : n \in 1 .. MaxPieces}}

InitDoc ==
    /\ FieldIdle /\ RealIdle /\ XcIdle /\ AdvIdle
    /\ docstr_in \in Docstrings
    /\ docstr = docstr_in
    /\ i_start = 0
    /\ n_turns = 0
    /\ pc_doc = "called"

\* lines 205-206
FindFirst ==
    /\ pc_doc = "called"
    /\ i_start' = find(docstr, key, 0)
    /\ pc_doc' = "while"
    /\ UNCHANGED <<fieldVars, realVars, xcVars, advVars, docstr_in, docstr, n_turns>>

\* lines 207-212: one turn of the loop; turns are counted up to one more
\* than a docstring of MaxPieces pieces has roles
LoopTurn ==
    /\ pc_doc = "while"
    /\ i_start >= 0
    /\ n_turns <= MaxPieces
    /\ LET i_stop  == find(docstr, <<BQ>>, i_start + Len(key) + 1) + 1
           fullkey == slice(docstr, i_start, i_stop)
       IN  /\ docstr' = replace(docstr, fullkey)
           /\ i_start' = find(docstr', key, 0)
    /\ n_turns' = n_turns + 1
    /\ UNCHANGED <<fieldVars, realVars, xcVars, advVars, docstr_in, pc_doc>>

\* lines 207 and 213: the loop condition fails and docstr is returned
Return ==
    /\ pc_doc = "while"
    /\ i_start < 0
    /\ pc_doc' = "returned"
    /\ UNCHANGED <<fieldVars, realVars, xcVars, advVars, docstr_in, docstr, i_start, n_turns>>

NextDoc == FindFirst \/ LoopTurn \/ Return

SpecDoc == InitDoc /\ [][NextDoc]_vars


\* ------------------------------------------------------- advection solver
\* (qimpy/transport/advect/_advect.py, class Advect).  The distribution
\* function rho[x][y] holds the values at the two angles of N_theta = 2 as a
\* pair; theta = (0, pi), v_F = 1 and the factor dtheta is left out of the
\* integrals over angle.

\* slice(start, stop) and slice(start, None)
py_slice(start, stop) == [start |-> start, stop |-> stop, to_end |-> FALSE]
py_slice_from(start) == [start |-> start, stop |-> 0, to_end |-> TRUE]

\* the positions a slice selects along an axis of length n, in order
Sel(sl, n) ==
    LET norm(v) == IF v < 0 THEN (IF v + n < 0 THEN 0 ELSE v + n)
                   ELSE (IF v > n THEN n ELSE v)
        first == norm(sl.start)
        last  == IF sl.to_end THEN n ELSE norm(sl.stop)
    IN  [k \in Range(last - first) |-> first + k]

\* the set of positions of Sel
SelSet(sl, n) == {Sel(sl, n)[k] : k \in DOMAIN Sel(sl, n)}

\* lines 11-61: Advect(N=N, N_ghost=N_ghost, reflect_boundaries=...)
Advect(N, N_ghost, reflect_boundaries) ==
    [N |-> N,
     N_ghost |-> N_ghost,
     reflect_boundaries |-> reflect_boundaries,
     rho_shape |-> <<N[1] + 2 * N_ghost, N[2] + 2 * N_ghost>>,
     non_ghost |-> IF N_ghost = 0 THEN py_slice(0, -1) ELSE py_slice(N_ghost, -N_ghost),
     ghost_l |-> py_slice(0, N_ghost),
     ghost_r |-> py_slice_from(-N_ghost),
     boundary_l |-> py_slice(N_ghost, 2 * N_ghost),
     boundary_r |-> py_slice(-2 * N_ghost, -N_ghost)]

\* rho[sl] and rho[:, sl]
rows(r, sl, shp) == [k \in DOMAIN Sel(sl, shp[1]) |-> r[Sel(sl, shp[1])[k]]]
cols(r, sl, shp) ==
    [x \in Range(shp[1]) |-> [k \in DOMAIN Sel(sl, shp[2]) |-> r[x][Sel(sl, shp[2])[k]]]]

\* lines 229-237: the rows in reverse order; each half of the angles, one
\* angle long, flipped in itself
reflect_x(r) ==
    LET m == Cardinality(DOMAIN r)
    IN  [k \in DOMAIN r |-> r[m - 1 - k]]

\* lines 240-244: the columns in reverse order and the angles in reverse order
reflect_y(r) ==
    [x \in DOMAIN r |->
        LET m == Cardinality(DOMAIN r[x])
        IN  [k \in DOMAIN r[x] |-> <<r[x][m - 1 - k][2], r[x][m - 1 - k][1]>>]]

\* rho[sl] = vals: the value has as many rows as the slice selects, or one
set_rows(r, sl, shp, vals) ==
    LET dst == Sel(sl, shp[1])
        ns  == Cardinality(DOMAIN vals)
    IN  IF CanBroadcast(ns, Cardinality(DOMAIN dst))
        THEN [raised |-> FALSE,
              rho |-> [x \in DOMAIN r |->
                          IF \E k \in DOMAIN dst : dst[k] = x
                          THEN vals[IF ns = 1 THEN 0 ELSE x - dst[0]]
                          ELSE r[x]]]
        ELSE [raised |-> TRUE, rho |-> r]

\* rho[:, sl] = vals
set_cols(r, sl, shp, vals) ==
    LET dst == Sel(sl, shp[2])
        ns  == IF shp[1] = 0 THEN 0 ELSE Cardinality(DOMAIN vals[0])
    IN  IF CanBroadcast(ns, Cardinality(DOMAIN dst))
        THEN [raised |-> FALSE,
              rho |-> [x \in DOMAIN r |->
                          [y \in DOMAIN r[x] |->
                              IF \E k \in DOMAIN dst : dst[k] = y
                              THEN vals[x][IF ns = 1 THEN 0 ELSE y - dst[0]]
                              ELSE r[x][y]]]]
        ELSE [raised |-> TRUE, rho |-> r]

\* lines 69-82: apply_boundaries(rho); the four assignments in turn, the
\* first that raises ending the call
apply_boundaries(r, a) ==
    LET shp == a.rho_shape
        fx(b) == IF a.reflect_boundaries THEN reflect_x(b) ELSE b
        fy(b) == IF a.reflect_boundaries THEN reflect_y(b) ELSE b
        src_l == IF a.reflect_boundaries THEN a.boundary_l ELSE a.boundary_r
        src_r == IF a.reflect_boundaries THEN a.boundary_r ELSE a.boundary_l
        s1 == set_rows(r, a.ghost_l, shp, fx(rows(r, src_l, shp)))
        s2 == IF s1.raised THEN s1
              ELSE set_rows(s1.rho, a.ghost_r, shp, fx(rows(s1.rho, src_r, shp)))
        s3 == IF s2.raised THEN s2
              ELSE set_cols(s2.rho, a.ghost_l, shp, fy(cols(s2.rho, src_l, shp)))
    IN  IF s3.raised THEN s3
        ELSE set_cols(s3.rho, a.ghost_r, shp, fy(cols(s3.rho, src_r, shp)))

\* rho[non_ghost, non_ghost]
physical(r, a) ==
    LET sx == Sel(a.non_ghost, a.rho_shape[1])
        sy == Sel(a.non_ghost, a.rho_shape[2])
    IN  [i \in DOMAIN sx |-> [j \in DOMAIN sy |-> r[sx[i]][sy[j]]]]

\* lines 101-104: the sum over the angles
density_of(r, a) ==
    LET ph == physical(r, a)
    IN  [i \in DOMAIN ph |-> [j \in DOMAIN ph[i] |-> ph[i][j][1] + ph[i][j][2]]]

\* lines 106-109: the product with v = ((1, 0), (-1, 0))
velocity_of(r, a) ==
    LET ph == physical(r, a)
    IN  [i \in DOMAIN ph |-> [j \in DOMAIN ph[i] |-> <<ph[i][j][1] - ph[i][j][2], 0>>]]

\* the distribution functions apply_boundaries is called on: all zero as
\* after construction, or a different pair of values in every cell
RhoInputs(shp) ==
    {[x \in Range(shp[1]) |-> [y \in Range(shp[2]) |-> <<0, 0>>]],
     [x \in Range(shp[1]) |-> [y \in Range(shp[2]) |->
         <<1 + x * shp[2] + y, -(1 + x * shp[2] + y)>>]],
     [x \in Range(shp[1]) |-> [y \in Range(shp[2]) |->
         <<1 + x * shp[2] + y, 2 * (1 + x * shp[2] + y)>>]]}

\* grids at least as wide as their ghost layers
InitAdvect ==
    /\ FieldIdle /\ RealIdle /\ XcIdle /\ DocIdle
    /\ \E N_ghost \in 0 .. MaxGhost, reflect \in BOOLEAN :
       \E Nx \in 1 .. MaxN, Ny \in 1 .. MaxN :
           /\ Nx >= N_ghost /\ Ny >= N_ghost
           /\ adv_args = [N |-> <<Nx, Ny>>, N_ghost |-> N_ghost,
                          reflect_boundaries |-> reflect]
    /\ advect = NoPlan
    /\ rho_arg = <<>> /\ rho_adv = <<>> /\ density = <<>> /\ velocity = <<>>
    /\ pc_adv = "new"

\* lines 11-61; self.rho is all zero (line 48)
ConstructAdvect ==
    /\ pc_adv = "new"
    /\ advect' = Advect(adv_args.N, adv_args.N_ghost, adv_args.reflect_boundaries)
    /\ rho_adv' = [x \in Range(advect'.rho_shape[1]) |->
                      [y \in Range(advect'.rho_shape[2]) |-> <<0, 0>>]]
    /\ pc_adv' = "ready"
    /\ UNCHANGED <<fieldVars, realVars, xcVars, docVars, adv_args, rho_arg,
                   density, velocity>>

\* lines 69-82 on self.rho, which holds r when the call is made; property
\* values read from the earlier rho are dropped
ApplyBoundaries ==
    /\ pc_adv = "ready"
    /\ \E r \in RhoInputs(advect.rho_shape) :
           LET res == apply_boundaries(r, advect)
           IN  /\ rho_arg' = r
               /\ rho_adv' = res.rho
               /\ pc_adv' = IF res.raised THEN "raised" ELSE "applied"
    /\ density' = <<>> /\ velocity' = <<>>
    /\ UNCHANGED <<fieldVars, realVars, xcVars, docVars, adv_args, advect>>

\* lines 101-104
Density ==
    /\ pc_adv \in {"ready", "applied"}
    /\ density = <<>>
    /\ density' = density_of(rho_adv, advect)
    /\ UNCHANGED <<fieldVars, realVars, xcVars, docVars, adv_args, advect,
                   rho_arg, rho_adv, velocity, pc_adv>>

\* lines 106-109
Velocity ==
    /\ pc_adv \in {"ready", "applied"}
    /\ velocity = <<>>
    /\ velocity' = velocity_of(rho_adv, advect)
    /\ UNCHANGED <<fieldVars, realVars, xcVars, docVars, adv_args, advect,
                   rho_arg, rho_adv, density, pc_adv>>

NextAdvect == ConstructAdvect \/ ApplyBoundaries \/ Density \/ Velocity

SpecAdvect == InitAdvect /\ [][NextAdvect]_vars


\* ================================================================== claims
\* the identity-only group: one operation, the identity, with no translation
TrivialGroup == rot = <<RotE>> /\ trans = <<NoTrans>>

C2_IdentityUnchanged ==
    \A p \in Procs :
        (TrivialGroup /\ Len(v_out[p]) >= 1) => v_out[p][1] = Local(v_in, p)

\* C2 witness: under the identity-only group a process has completed a call
\* in which it sent values of a non-zero field to another process
C2_Witness ==
    /\ TrivialGroup
    /\ \E p \in Procs :
          /\ Len(v_out[p]) >= 1
          /\ \E b \in Range(n_batch) : \E l \in DOMAIN v_out[p][1][b] :
                 v_out[p][1][b][l] # CZero
          /\ \E q \in Procs \ {p} : coll[p][1].send_counts[q] > 0


\* every process has run the constructor and no call has started
Built ==
    \A p \in Procs : pc[p] \in {"ready", "ctor_failed"} /\ calls[p] = 0

\* the orbit representatives and the orbit member table of the grid
Red == reduced(shape, rot)
Tab == orbit_table(shape, rot, Red)

\* the distinct members of orbit o
Members(o) == {Tab[o][s].index : s \in Range(Len(rot))}

\* the orbit whose representative is the canonical index of grid point g
OrbitOf(g) == CHOOSE o \in DOMAIN Red : Red[o] = min_equiv_index(shape, rot, g)

\* C3: the orbits partition the global half-space index set: every global
\* index is a member of exactly one orbit.
C3_OrbitsPartition ==
    Built => LET tab == Tab
             IN  \A g \in Range(n_grid_tot(shape)) :
                     Cardinality({o \in DOMAIN tab :
                                    \E s \in Range(Len(rot)) : tab[o][s].index = g}) = 1

\* C4: orbits are closed under the group action with folding: every grid
\* index and each of its folded images under the operations is a member of
\* the orbit of the index's canonical representative.
C4_OrbitsClosed ==
    Built => \A g \in Range(n_grid_tot(shape)) :
                 /\ g \in Members(OrbitOf(g))
                 /\ \A s \in 1 .. Len(rot) :
                        get_index(shape, VecMat(get_mesh(shape, g), rot[s])).index
                            \in Members(OrbitOf(g))

\* the number of operations that map the representative of orbit o to itself
Occurrences(o) == Cardinality({s \in Range(Len(rot)) : Tab[o][s].index = Red[o]})

\* C6: for every orbit, the number of its distinct members times the number
\* of occurrences of its representative among its images is the group order.
C6_MultiplicityTimesOccurrences ==
    Built => \A o \in DOMAIN Tab :
                 Cardinality(Members(o)) * Occurrences(o) = Len(rot)

\* no image of the representative of orbit o needed Hermitian folding
Unfolded(o) == \A s \in Range(Len(rot)) : ~Tab[o][s].is_conj

\* C6 as amended: the product is the group order for every orbit none of
\* whose images needed Hermitian folding.
C6_UnfoldedOrbits ==
    Built => \A o \in DOMAIN Tab :
                 Unfolded(o) =>
                     Cardinality(Members(o)) * Occurrences(o) = Len(rot)

\* C6 witness: a constructed plan has an unfolded orbit with several
\* members whose representative is also fixed by a non-identity operation
C6_Witness ==
    /\ Built
    /\ \E p \in Procs : pc[p] = "ready"
    /\ \E o \in DOMAIN Tab : /\ Unfolded(o)
                             /\ Cardinality(Members(o)) > 1
                             /\ Occurrences(o) > 1


\* all translations are zero and no image in the table tab is folded
PlainGroup(tab) ==
    /\ \A s \in 1 .. Len(trans) : trans[s] = NoTrans
    /\ \A o \in DOMAIN tab : \A s \in Range(Len(rot)) : ~tab[o][s].is_conj

\* the number of (orbit, operation) slots of tab that map to grid point g
SlotsAt(tab, g) ==
    Cardinality({f \in Range(Cardinality(DOMAIN tab) * Len(rot)) :
                    tab[f \div Len(rot)][f % Len(rot)].index = g})

\* (1 / |group|) times the sum of row b of the input over the images of the
\* representative of the orbit of g
OrbitAverage(tab, red, b, g) ==
    LET o == CHOOSE k \in DOMAIN red : red[k] = min_equiv_index(shape, rot, g)
    IN  CDiv(CSumTo([s \in Range(Len(rot)) |-> v_in[b][tab[o][s].index]], Len(rot)),
             Len(rot))

\* process p has returned from its first call and not started the second
AfterFirstCall(p) == pc[p] = "ready" /\ calls[p] = 1

\* C5: with zero translations and no folding, after a call every grid index
\* holds (1 / |group|) times the sum of the input over the |group| images of
\* its orbit representative, also where several operations map to the index
\* (the accumulated duplicates are divided out, not counted several times).
C5_OrbitAverageOnce ==
    \A p \in Procs :
        AfterFirstCall(p) =>
            LET red == Red
                tab == orbit_table(shape, rot, red)
            IN  PlainGroup(tab) =>
                    \A b \in Range(n_batch) : \A l \in DOMAIN v_data[p][b] :
                        v_data[p][b][l] = OrbitAverage(tab, red, b, GlobalOf(p, l))

\* C5 witness: after a call of a multi-process job under such a group, a
\* grid index reached by several operations holds a non-zero value that
\* differs from its input value
C5_Witness ==
    /\ n_procs > 1
    /\ \E p \in Procs :
          /\ AfterFirstCall(p)
          /\ PlainGroup(Tab)
          /\ \E b \in Range(n_batch) : \E l \in DOMAIN v_data[p][b] :
                 /\ SlotsAt(Tab, GlobalOf(p, l)) > 1
                 /\ v_data[p][b][l] # CZero
                 /\ v_data[p][b][l] # v_in[b][GlobalOf(p, l)]


\* the orbit block and the grid block of process p
DestOf(p) == div_dest(Cardinality(DOMAIN Red), n_procs, p)
SrcOf(p) == split2H(shape, split_procs, p)

\* the blocks blk(0), blk(1), ... are consecutive ranges that cover
\* [0, n_tot), each of at most ceil(n_tot / n_procs) elements, and every
\* element lies in exactly one of them
BlockPartition(blk(_), n_tot) ==
    /\ blk(0).i_start = 0
    /\ blk(n_procs - 1).i_stop = n_tot
    /\ \A p \in Procs : /\ blk(p).i_start <= blk(p).i_stop
                        /\ (blk(p).i_stop - blk(p).i_start) * n_procs < n_tot + n_procs
                        /\ p + 1 \in Procs => blk(p).i_stop = blk(p + 1).i_start
    /\ \A i \in Range(n_tot) :
           Cardinality({p \in Procs : blk(p).i_start <= i /\ i < blk(p).i_stop}) = 1

\* C7: the blocks of the orbits over the processes are disjoint, cover all
\* orbits, are consecutive ranges in rank order of at most
\* ceil(n_orbits / n_procs) orbits, also with more processes than orbits;
\* the same holds for the blocks of the grid along its split axis.
C7_PartitionsCover ==
    (Built /\ n_procs > 1) =>
        /\ BlockPartition(DestOf, Cardinality(DOMAIN Red))
        /\ BlockPartition(SrcOf, ShapeH(shape)[3])
        /\ \A p \in Procs :
               pc[p] = "ready" =>
                   self[p].n_orbits_mine = DestOf(p).i_stop - DestOf(p).i_start

\* C7 witness: a job with more processes than orbits has built its plans,
\* and one of its processes owns no orbit
C7_Witness ==
    /\ Built
    /\ n_procs > Cardinality(DOMAIN Red)
    /\ \E p \in Procs : pc[p] = "ready" /\ self[p].n_orbits_mine = 0

\* C8: for every process the scatter exchange uses the per-process counts
\* and offsets of its gather exchange with the send and receive roles
\* swapped, so the total it sends in the gather is the total it receives in
\* the scatter, and the total it receives in the gather is the total it
\* sends in the scatter.
C8_RoundTripCounts ==
    \A p \in Procs :
        Len(coll[p]) = 2 =>
            LET g == coll[p][1]
                t == coll[p][2]
            IN  /\ SumTo(g.send_counts, n_procs) = SumTo(t.recv_counts, n_procs)
                /\ SumTo(g.recv_counts, n_procs) = SumTo(t.send_counts, n_procs)
                /\ \A q \in Procs : /\ t.recv_counts[q] = g.send_counts[q]
                                    /\ t.recv_offsets[q] = g.send_offsets[q]
                                    /\ t.send_counts[q] = g.recv_counts[q]
                                    /\ t.send_offsets[q] = g.recv_offsets[q]

\* C8 witness: a process has issued both exchanges of a call in which it
\* sends a different number of elements than it receives
C8_Witness ==
    \E p \in Procs :
        /\ Len(coll[p]) = 2
        /\ SumTo(coll[p][1].send_counts, n_procs) > 0
        /\ SumTo(coll[p][1].send_counts, n_procs)
               # SumTo(coll[p][1].recv_counts, n_procs)

\* the collectives process p has issued in its call so far are a prefix of
\* gather, scatter
InOrder(p) ==
    /\ Len(coll[p]) <= 2
    /\ Len(coll[p]) >= 1 => coll[p][1].kind = "gather"
    /\ Len(coll[p]) = 2 => coll[p][2].kind = "scatter"
    /\ pc[p] = "gather_wait" => Len(coll[p]) = 1
    /\ pc[p] = "scatter_wait" => Len(coll[p]) = 2

\* C9 as stated: every process that has returned from a call has issued
\* exactly two collectives in it, the gather and then the scatter.
C9_TwoCollectivesEveryCall ==
    \A p \in Procs :
        (pc[p] = "ready" /\ calls[p] > 0) =>
            /\ Len(coll[p]) = 2
            /\ coll[p][1].kind = "gather"
            /\ coll[p][2].kind = "scatter"

\* C9, amended: in a job of more than one process every process issues
\* exactly two collectives per call, the gather and then the scatter,
\* whatever it owns, and a process that has issued the gather exchange
\* eventually returns from its call; a job of one process issues no
\* collective at all.
C9_CallsComplete ==
    /\ [](\A p \in Procs :
             /\ InOrder(p)
             /\ (pc[p] = "ready" /\ calls[p] > 0) =>
                    Len(coll[p]) = (IF n_procs > 1 THEN 2 ELSE 0))
    /\ \A p \in Range(MaxProcs) :
           (p \in Procs /\ pc[p] = "gather_wait")
               ~> (p \in Procs /\ pc[p] = "ready" /\ Len(coll[p]) = 2)

\* C9 witness: a process that owns no orbit has returned from a call
C9_Witness ==
    \E p \in Procs : /\ n_procs > 1
                     /\ pc[p] = "ready"
                     /\ calls[p] > 0
                     /\ self[p].n_orbits_mine = 0

\* C10: when the grid's split and the orbit split assume different process
\* counts, no process issues the gather exchange.
C10_MismatchStopsBeforeExchange ==
    split_procs # n_procs =>
        \A p \in Procs : pc[p] \in {"new", "ready", "ctor_failed"} /\ calls[p] = 0


\* the buffer process p passed to the call it is in (or would start next)
CallInput(p) == IF calls[p] = 0 THEN Local(v_in, p) ELSE v_out[p][calls[p]]

\* C11: at every point where the call in flight can fail (waiting in the
\* gather exchange, waiting in the scatter exchange) and in every state in
\* which it has failed, the field buffer of the caller still holds the
\* values it held when the call started.
C11_BufferIntactOnAbort ==
    \A p \in Procs :
        pc[p] \in {"gather_wait", "scatter_wait", "mpi_error", "call_failed"}
            => v_data[p] = CallInput(p)


\* the determinant of a 3 x 3 matrix
Det(R) ==
    R[1][1] * (R[2][2] * R[3][3] - R[2][3] * R[3][2])
    - R[1][2] * (R[2][1] * R[3][3] - R[2][3] * R[3][1])
    + R[1][3] * (R[2][1] * R[3][2] - R[2][2] * R[3][1])

\* the group holds a rotation matrix that is not unimodular
Malformed == \E s \in 1 .. Len(rot) : Det(rot[s]) \notin {1, -1}

\* C12: with a rotation matrix that is not unimodular in the group, no
\* process gets past construction: the constructor fails and no engine
\* exists on any process.
C12_MalformedRejected ==
    Malformed => \A p \in Procs : pc[p] \in {"new", "ctor_failed"} /\ self[p] = NoPlan


\* the flat positions o * n_sym + s of the orbit members whose grid point
\* process p holds, in increasing order
MineOf(p) ==
    mine_src(whose_src(shape, Tab, Len(rot), SrcOf(p)), Len(rot), p)

\* C13: on every process that holds a plan, every entry of grid_index is a
\* position of its own local buffer, and it is the local position of the
\* global grid point of the orbit member it stands for, whose split-axis
\* coordinate lies in the block [i_start, i_stop) of the process.
C13_GridIndexLocal ==
    \A p \in Procs :
        (Built /\ n_procs > 1 /\ self[p].ok) =>
            LET tab  == Tab
                held == MineOf(p)
                src  == SrcOf(p)
            IN  /\ DOMAIN self[p].grid_index = DOMAIN held
                /\ \A k \in DOMAIN held :
                       LET l == self[p].grid_index[k]
                           g == tab[held[k] \div Len(rot)][held[k] % Len(rot)].index
                           z == get_mesh(shape, g)[3]
                       IN  /\ l \in Range(n_grid_mine(p))
                           /\ GlobalOf(p, l) = g
                           /\ src.i_start <= z /\ z < src.i_stop

\* C13 witness: a process whose block does not start at 0 holds a plan that
\* reads several positions of its buffer
C13_Witness ==
    \E p \in Procs :
        /\ Built /\ n_procs > 1 /\ self[p].ok
        /\ SrcOf(p).i_start > 0
        /\ Cardinality({self[p].grid_index[k] : k \in DOMAIN self[p].grid_index}) > 1


\* C14: a call does not modify the plan: once the constructor of a process
\* has run, no step changes any part of its plan (orbit member indices,
\* imag_scale, phases, send_prev, recv_prev, grid_index, recv_index,
\* orbit_index, inverse-multiplicity weights).
C14_PlanUnchangedByCalls ==
    [][\A p \in Procs : pc[p] # "new" => self'[p] = self[p]]_vars

\* C14 witness: a process of a multi-process job that exchanges data has
\* completed two calls
C14_Witness ==
    \E p \in Procs :
        /\ n_procs > 1
        /\ calls[p] >= 2
        /\ self[p].ok
        /\ Cardinality(DOMAIN self[p].grid_index) > 0
        /\ Cardinality(DOMAIN self[p].recv_index) > 0


\* C15: get_index wraps each component modulo the grid period; if the
\* wrapped last component exceeds the half-space bound shape[3] \div 2 the
\* whole vector is negated modulo the period and the conjugation flag is
\* true, otherwise the vector is kept and the flag is false; the flat index
\* returned lies in [0, prod(shapeH)); the argument is not modified.
C15_GetIndexFolds ==
    /\ [](ret # NoRet =>
            LET w   == [j \in 1 .. 3 |-> arg_iH[j] % shape[j]]
                far == w[3] > shape[3] \div 2
                v   == IF far THEN [j \in 1 .. 3 |-> (shape[j] - w[j]) % shape[j]]
                              ELSE w
                sH  == ShapeH(shape)
            IN  /\ ret.is_conj = far
                /\ ret.index = (v[1] * sH[2] + v[2]) * sH[3] + v[3]
                /\ v[3] < sH[3]
                /\ ret.index \in Range(sH[1] * sH[2] * sH[3]))
    /\ [][arg_iH' = arg_iH]_vars

\* C15 witness: get_index has returned for a vector with a negative
\* component and a component beyond the period, and it folded the vector
C15_Witness ==
    /\ ret # NoRet
    /\ ret.is_conj
    /\ arg_iH[1] < 0
    /\ arg_iH[2] >= shape[2]
    /\ ret.index > 0


\* the canonical key of grid point g: the least folded index among the
\* point itself and its images under all operations
CanonicalKey(g) ==
    LET imgs == {get_index(shape, get_mesh(shape, g)).index}
                \cup {get_index(shape, VecMat(get_mesh(shape, g), rot[s])).index :
                        s \in 1 .. Len(rot)}
    IN  CHOOSE k \in imgs : \A i \in imgs : k <= i

\* the canonical keys of the grid
CanonicalKeys == {CanonicalKey(g) : g \in Range(n_grid_tot(shape))}

\* the k-th canonical key in increasing order, from 0
KeyNo(k) == CHOOSE e \in CanonicalKeys : Cardinality({x \in CanonicalKeys : x < e}) = k

\* C16: orbits are numbered in strictly increasing order of their canonical
\* key, and the numbering depends on the grid shape and the operation list
\* only: every process, whatever its rank, holds the same number of orbits,
\* and what its plan stores of orbit o (the member indices on one process,
\* the phases of its block on several) is that of the o-th canonical key.
C16_OrbitNumbering ==
    Built =>
        LET red == Red
        IN  /\ \A o \in DOMAIN red : o + 1 \in DOMAIN red => red[o] < red[o + 1]
            /\ {red[o] : o \in DOMAIN red} = CanonicalKeys
            /\ \A p \in Procs :
                   self[p].ok =>
                       LET o_start == IF n_procs > 1 THEN DestOf(p).i_start ELSE 0
                       IN  /\ self[p].n_orbits = Cardinality(CanonicalKeys)
                           /\ \A o \in Range(self[p].n_orbits_mine) :
                                  \A s \in Range(Len(rot)) :
                                      /\ self[p].phase[o][s]
                                           = cis(Dot(get_mesh(shape, KeyNo(o_start + o)),
                                                     trans[s + 1]))
                                      /\ n_procs = 1 =>
                                           self[p].index[o * Len(rot) + s]
                                             = get_index(shape,
                                                   VecMat(get_mesh(shape, KeyNo(o)),
                                                          rot[s + 1])).index

\* C16 witness: two processes of different rank hold plans for different
\* non-empty blocks of orbits of a grid that the group reduces
C16_Witness ==
    /\ Built
    /\ Cardinality(CanonicalKeys) < n_grid_tot(shape)
    /\ \E p \in Procs, q \in Procs :
          /\ p # q
          /\ self[p].ok /\ self[q].ok
          /\ self[p].n_orbits_mine > 0 /\ self[q].n_orbits_mine > 0


\* the number of elements the plan of p sends to q, and the number the plan
\* of q expects from p
SendCount(p, q) == self[p].send_prev[q + 1] - self[p].send_prev[q]
RecvCount(q, p) == self[q].recv_prev[p + 1] - self[q].recv_prev[p]

\* the number of (orbit, operation) members whose grid point process p holds
MembersHeldBy(p) ==
    LET tab == Tab
    IN  Cardinality({f \in Range(Cardinality(DOMAIN tab) * Len(rot)) :
            LET z == get_mesh(shape, tab[f \div Len(rot)][f % Len(rot)].index)[3]
            IN  SrcOf(p).i_start <= z /\ z < SrcOf(p).i_stop})

\* C17: for every ordered pair of processes (p, q) the plan of p sends to q
\* as many elements as the plan of q expects from p; the send counts of p
\* add up to the number of orbit members whose grid point p holds, and the
\* receive counts of q add up to n_orbits_mine(q) * n_sym.
C17_ScheduleAgrees ==
    (Built /\ n_procs > 1 /\ \A p \in Procs : self[p].ok) =>
        /\ \A p \in Procs, q \in Procs : SendCount(p, q) = RecvCount(q, p)
        /\ \A p \in Procs :
               /\ SumTo([q \in Procs |-> SendCount(p, q)], n_procs) = MembersHeldBy(p)
               /\ SumTo([q \in Procs |-> RecvCount(p, q)], n_procs)
                      = self[p].n_orbits_mine * Len(rot)

\* C17 witness: plans in which a process sends to another process and to
\* itself, and some pair exchanges nothing
C17_Witness ==
    /\ Built /\ n_procs > 1 /\ \A p \in Procs : self[p].ok
    /\ \E p \in Procs, q \in Procs :
          p # q /\ SendCount(p, q) > 0 /\ SendCount(p, p) > 0
    /\ \E p \in Procs, q \in Procs : SendCount(p, q) = 0


\* C18: after the gather exchange of its first call, on every process q the
\* slot (o, s) of the local orbit table, read from the receive buffer through
\* orbit_index, holds the input field value at the global grid index of
\* member s of q's local orbit o, whichever process held it; and orbit_index
\* is the inverse permutation of recv_index.
C18_GatherFillsOrbits ==
    \A q \in Procs :
        (pc[q] = "gathered" /\ calls[q] = 0) =>
            LET tab     == Tab
                n_sym   == Len(rot)
                o_start == DestOf(q).i_start
                n_slots == self[q].n_orbits_mine * n_sym
            IN  /\ DOMAIN self[q].orbit_index = Range(n_slots)
                /\ DOMAIN self[q].recv_index = Range(n_slots)
                /\ \A j \in Range(n_slots) :
                       /\ self[q].orbit_index[self[q].recv_index[j]] = j
                       /\ self[q].recv_index[self[q].orbit_index[j]] = j
                /\ \A b \in Range(n_batch) : \A l \in Range(n_slots) :
                       dest_data[q][self[q].orbit_index[l] * n_batch + b]
                           = v_in[b][tab[o_start + (l \div n_sym)][l % n_sym].index]

\* C18 witness: a process has gathered a field of distinct values, part of
\* it from another process, in an order that differs from the orbit order
\* and is not its own inverse
C18_Witness ==
    \E q \in Procs :
        /\ pc[q] = "gathered" /\ calls[q] = 0
        /\ \A g \in DOMAIN v_in[0] : \A h \in DOMAIN v_in[0] :
               g # h => v_in[0][g] # v_in[0][h]
        /\ \E p \in Procs : p # q /\ RecvCount(q, p) > 0
        /\ \E j \in DOMAIN self[q].recv_index :
               self[q].recv_index[self[q].recv_index[j]] # j


\* prev has n + 1 entries, starts at 0, never decreases and ends at total
PrefixSums(prev, n, total) ==
    /\ DOMAIN prev = 0 .. n
    /\ prev[0] = 0
    /\ \A j \in Range(n) : prev[j] <= prev[j + 1]
    /\ prev[n] = total

\* C19: send_prev and recv_prev have n_procs + 1 entries, start at 0, never
\* decrease and end at the number of elements the process sends (resp.
\* receives), so the segments [prev[j], prev[j+1]) of the ranks tile the
\* buffer; the counts and offsets a call passes to the gather exchange are
\* the segment lengths and starts times n_batch.
C19_PrefixSums ==
    \A p \in Procs :
        (n_procs > 1 /\ self[p].ok /\ pc[p] \in {"ready", "gather_wait"}) =>
            /\ PrefixSums(self[p].send_prev, n_procs,
                          Cardinality(DOMAIN self[p].grid_index))
            /\ PrefixSums(self[p].recv_prev, n_procs,
                          Cardinality(DOMAIN self[p].recv_index))
            /\ \A j \in Range(Cardinality(DOMAIN self[p].grid_index)) :
                   Cardinality({q \in Procs : /\ self[p].send_prev[q] <= j
                                              /\ j < self[p].send_prev[q + 1]}) = 1
            /\ \A j \in Range(Cardinality(DOMAIN self[p].recv_index)) :
                   Cardinality({q \in Procs : /\ self[p].recv_prev[q] <= j
                                              /\ j < self[p].recv_prev[q + 1]}) = 1
            /\ pc[p] = "gather_wait" =>
                   \A q \in Procs :
                       /\ coll[p][1].send_counts[q] = SendCount(p, q) * n_batch
                       /\ coll[p][1].send_offsets[q] = self[p].send_prev[q] * n_batch
                       /\ coll[p][1].recv_counts[q] = RecvCount(p, q) * n_batch
                       /\ coll[p][1].recv_offsets[q] = self[p].recv_prev[q] * n_batch

\* C19 witness: a process has issued the gather exchange of a batch of
\* several rows with a send segment and a receive segment that start past 0
C19_Witness ==
    \E p \in Procs :
        /\ n_procs > 1 /\ pc[p] = "gather_wait" /\ n_batch > 1
        /\ \E q \in Procs : coll[p][1].send_offsets[q] > 0 /\ coll[p][1].send_counts[q] > 0
        /\ \E q \in Procs : coll[p][1].recv_offsets[q] > 0 /\ coll[p][1].recv_counts[q] > 0


\* C20: the stored imag_scale multiplies by -1 exactly where the stored
\* conjugation flag of the orbit member is true and by +1 elsewhere, so
\* _conjugate negates the imaginary part of exactly the flagged slots and
\* leaves every other imaginary part and every real part unchanged.
C20_ConjugateNegatesFlagged ==
    \A p \in Procs :
        (Built /\ self[p].ok) =>
            LET tab     == Tab
                n_sym   == Len(rot)
                o_start == IF n_procs > 1 THEN DestOf(p).i_start ELSE 0
                n_slots == self[p].n_orbits_mine * n_sym
                probe   == [b \in Range(1) |-> [f \in Range(n_slots) |-> <<f + 1, 1, 1>>]]
                folded  == conjugate(probe, self[p].imag_scale, n_sym)
            IN  \A f \in Range(n_slots) :
                    LET flag == tab[o_start + (f \div n_sym)][f % n_sym].is_conj
                    IN  /\ ScaleOf(self[p].imag_scale[f \div n_sym][f % n_sym])
                               = (IF flag THEN -1 ELSE 1)
                        /\ folded[0][f] = (IF flag THEN <<f + 1, -1, 1>>
                                                   ELSE <<f + 1, 1, 1>>)


\* the moves of a process through a call, in the order of the code
StepOrder ==
    { <<"new", "ready">>, <<"new", "ctor_failed">>,
      <<"ready", "gather_wait">>, <<"gather_wait", "gathered">>,
      <<"gather_wait", "mpi_error">>, <<"gathered", "scatter_wait">>,
      <<"scatter_wait", "scattered">>, <<"scatter_wait", "mpi_error">>,
      <<"scattered", "ready">>, <<"scattered", "call_failed">>,
      <<"ready", "call_failed">> }

\* C21: a call runs gather, then fold / average / re-expand / unfold with
\* the clearing of the buffer, then scatter-accumulate and normalize, and
\* ends there.  The gather steps leave the field buffer as it is; the buffer
\* is first written, to zero, in the step that has the averaged orbit values
\* ready to send; the scatter exchange leaves it alone; the last step adds
\* the returned values at grid_index and applies the inverse-multiplicity
\* weight once; outside a call the buffer does not change.
C21_StepOrder ==
    [][\A p \in Procs :
          /\ pc'[p] # pc[p] => <<pc[p], pc'[p]>> \in StepOrder
          /\ (pc'[p] \in {"gather_wait", "gathered"}) => v_data'[p] = v_data[p]
          /\ (pc[p] = "gathered" /\ pc'[p] = "scatter_wait") =>
                 /\ v_data[p] = CallInput(p)
                 /\ \A b \in Range(n_batch) : \A l \in DOMAIN v_data[p][b] :
                        v_data'[p][b][l] = CZero
          /\ (pc[p] = "scatter_wait") => v_data'[p] = v_data[p]
          /\ (pc[p] = "scattered" /\ pc'[p] = "ready") =>
                 /\ calls'[p] = calls[p] + 1
                 /\ \A b \in Range(n_batch) : \A l \in DOMAIN v_data[p][b] :
                        LET w == self[p].inv_multiplicity[l]
                            K == DOMAIN self[p].grid_index
                            a == CSumTo([k \in K |->
                                           IF self[p].grid_index[k] = l
                                           THEN src_data[p][k * n_batch + b]
                                           ELSE CZero], Cardinality(K))
                        IN  v_data'[p][b][l] = CDiv(<<a[1] * w[1], a[2] * w[1], a[3]>>, w[2])
          /\ (n_procs > 1 /\ pc[p] = "ready" /\ pc'[p] = "ready") =>
                 v_data'[p] = v_data[p] /\ calls'[p] = calls[p]
      ]_vars

\* C21 witness: a process of a multi-process job has gone through all steps
\* of a call that changed a value it holds at a grid point several orbit
\* members map to
C21_Witness ==
    \E p \in Procs :
        /\ n_procs > 1 /\ pc[p] = "ready" /\ calls[p] = 1
        /\ Len(coll[p]) = 2
        /\ \E b \in Range(n_batch) : \E l \in DOMAIN v_data[p][b] :
               /\ v_data[p][b][l] # Local(v_in, p)[b][l]
               /\ self[p].inv_multiplicity[l][2] > Len(rot)


\* the Gz = 0 plane waves of the basis
Z0 == {i \in Range(basis.n_tot) : basis.iG[i][3] = 0}

\* plane wave j is the negation of plane wave i
IsNeg(i, j) == basis.iG[j] = <<-basis.iG[i][1], -basis.iG[i][2], -basis.iG[i][3]>>

\* the Gz = 0 point set is closed under negation
NegClosed == \A i \in Z0 : \E j \in Z0 : IsNeg(i, j)

\* the conjugate partner of a Gz = 0 plane wave
partner(i) == CHOOSE j \in Z0 : IsNeg(i, j)

\* global plane wave of entry l of the coefficients process p holds
PlaneWaveOf(p, l) == IF is_split(p) THEN division(basis, p).i_start + l ELSE l

\* the entries of process p that stand for plane waves
Held(p) ==
    IF is_split(p)
    THEN Range(division(basis, p).i_stop - division(basis, p).i_start)
    ELSE Range(basis.n_tot)

\* C22: after symmetrize, on every process, with a Gz = 0 set closed under
\* negation the partner map is an involution and every Gz = 0 coefficient is
\* the mean of its old value and the conjugate of the old value at its
\* partner, so that it is the conjugate of the new value at its partner;
\* coefficients with Gz # 0 are unchanged; and the entries a process holds
\* of split coefficients are those of the all-local result.
C22_HermitianZ0 ==
    \A p \in Procs_b :
        pc_real[p] = "done" =>
            LET all_local == symmetrize_local(coeff_in, real[p])
            IN  \A r \in DOMAIN coeff[p] : \A l \in Held(p) :
                   LET i == PlaneWaveOf(p, l)
                   IN  /\ coeff[p][r][l] = all_local[r][i]
                       /\ i \notin Z0 => coeff[p][r][l] = coeff_in[r][i]
                       /\ (NegClosed /\ i \in Z0) =>
                              /\ partner(partner(i)) = i
                              /\ coeff[p][r][l] =
                                     CDiv(CAdd(coeff_in[r][i],
                                               CConj(coeff_in[r][partner(i)])), 2)
                              /\ \A q \in Procs_b : \A m \in Held(q) :
                                     (pc_real[q] = "done" /\ PlaneWaveOf(q, m) = partner(i))
                                         => coeff[p][r][l] = CConj(coeff[q][r][m])

\* C22 witness: split coefficients, a closed Gz = 0 set, and a process that
\* has symmetrized a Gz = 0 coefficient whose partner another process holds,
\* to a value it did not have before
C22_Witness ==
    \E p \in Procs_b : \E q \in Procs_b \ {p} :
        /\ pc_real[p] = "done" /\ pc_real[q] = "done"
        /\ is_split(p) /\ NegClosed
        /\ \E l \in Held(p) : \E m \in Held(q) :
               /\ PlaneWaveOf(p, l) \in Z0
               /\ PlaneWaveOf(q, m) = partner(PlaneWaveOf(p, l))
               /\ coeff[p][0][l] # coeff_in[0][PlaneWaveOf(p, l)]
               /\ coeff[p][0][l] = CConj(coeff[q][0][m])


\* a value times a scale factor, as a fraction in lowest terms
Scaled(x, scale_factor) == CNorm(x * scale_factor[1], 0, scale_factor[2])

\* element k of output label: the sum over the functionals that produce
\* the label of scale factor times the functional's own output
ScaledContributions(label, k) ==
    LET fs == xc.functionals
        term == [j \in Range(Len(fs)) |->
                    IF \E m \in DOMAIN fs[j + 1].output_labels :
                           fs[j + 1].output_labels[m] = label
                    THEN Scaled(compute(fs[j + 1].functional, inputs,
                                        fs[j + 1].has_energy)[label][k],
                                libxc_names[j + 1][2])
                    ELSE CZero]
    IN  CSumTo(term, Len(fs))

\* C23: when the call has applied every functional, each element of each
\* output (zk, vrho, vsigma, vlapl, vtau) is the sum over the functionals of
\* the scale factor given for the functional's name times its own output.
C23_ScaledContributions ==
    (pc_xc = "done") =>
        \A label \in DOMAIN outputs : \A k \in DOMAIN outputs[label] :
            <<outputs[label][k], 0, 1>> = ScaledContributions(label, k)


\* what a call on one process that holds the whole grid makes of the global
\* batch v: the path of __call__ with grid.n_procs = 1
SingleProcess(v) ==
    LET sp       == Plan(shape, rot, trans, 1, 1, 0)
        v_orbits == [b \in DOMAIN v |-> [f \in DOMAIN sp.index |-> v[b][sp.index[f]]]]
        v_acc    == index_put_accumulate(zero_(v), sp.index, symm_perform(v_orbits, sp))
    IN  normalize(v_acc, sp.inv_multiplicity)

\* every process of a multi-process job has just completed its first call
FirstCallDone ==
    /\ n_procs > 1
    /\ \A p \in Procs : pc[p] = "ready" /\ calls[p] = 1

\* C24: with the grid split over more than one process, the buffers the
\* processes hold after a call are, put together along the split axis, the
\* result of the single-process path on the same global field, group and grid.
C24_SplitRefinesSingle ==
    FirstCallDone =>
        LET single == SingleProcess(v_in)
        IN  \A p \in Procs : v_out[p][1] = Local(single, p)

\* C24 witness: after the first call of a job whose split gives every process
\* a part of the grid, the result differs from the input on two processes
C24_Witness ==
    /\ FirstCallDone
    /\ \A p \in Procs : n_grid_mine(p) > 0
    /\ \E p \in Procs : \E q \in Procs \ {p} :
           /\ v_out[p][1] # Local(v_in, p)
           /\ v_out[q][1] # Local(v_in, q)


\* C25: yaml_remove terminates: every turn of its loop takes a role out of
\* the docstring, which is then shorter than the turn found it, so that
\* after any number of turns the docstring has lost at least that many
\* characters and the loop cannot go on; this for every docstring, one with
\* a ':yaml:' that no closing backquote follows included.
C25_EveryTurnRemoves ==
    pc_doc \in {"while", "returned"} => Len(docstr) + n_turns <= Len(docstr_in)


\* the positions lo .. hi-1
Span(lo, hi) == {k \in Range(hi) : k >= lo}

\* C26: for every N_ghost >= 0, along each axis of length N + 2 N_ghost,
\* non_ghost selects the N interior cells, ghost_l and ghost_r the N_ghost
\* outermost cells of their side, boundary_l and boundary_r the N_ghost
\* interior cells next to them; density and velocity have one entry for each
\* of the N[0] x N[1] physical cells, computed from that cell; and
\* apply_boundaries completes and leaves every interior cell as it was.
C26_RegionSlicesExact ==
    (pc_adv \in {"ready", "applied", "raised"}) =>
        LET g == advect.N_ghost
            N == advect.N
            shp == advect.rho_shape
        IN  /\ \A ax \in 1 .. 2 :
                   /\ SelSet(advect.non_ghost, shp[ax]) = Span(g, g + N[ax])
                   /\ SelSet(advect.ghost_l, shp[ax]) = Span(0, g)
                   /\ SelSet(advect.ghost_r, shp[ax]) = Span(shp[ax] - g, shp[ax])
                   /\ SelSet(advect.boundary_l, shp[ax]) = Span(g, 2 * g)
                   /\ SelSet(advect.boundary_r, shp[ax]) = Span(shp[ax] - 2 * g, shp[ax] - g)
            /\ density # <<>> =>
                   /\ DOMAIN density = Range(N[1])
                   /\ \A i \in DOMAIN density :
                          /\ DOMAIN density[i] = Range(N[2])
                          /\ \A j \in DOMAIN density[i] :
                                 density[i][j] = rho_adv[g + i][g + j][1] + rho_adv[g + i][g + j][2]
            /\ velocity # <<>> =>
                   /\ DOMAIN velocity = Range(N[1])
                   /\ \A i \in DOMAIN velocity :
                          /\ DOMAIN velocity[i] = Range(N[2])
                          /\ \A j \in DOMAIN velocity[i] :
                                 velocity[i][j] =
                                     <<rho_adv[g + i][g + j][1] - rho_adv[g + i][g + j][2], 0>>
            /\ pc_adv # "raised"
            /\ pc_adv = "applied" =>
                   \A x \in Span(g, g + N[1]) : \A y \in Span(g, g + N[2]) :
                       rho_adv[x][y] = rho_arg[x][y]

====
